---------------------------- MODULE Spec2Model ----------------------------
(***************************************************************************)
(* A model of the virtual filesystem layer of nfs_mirror (src/src/main.rs):*)
(* the identifier map FSMap, its refresh engine and the NFSv3 handlers of  *)
(* MirrorFS, running over an abstract host filesystem that out-of-band     *)
(* writers change between handler calls.                                   *)
(*                                                                         *)
(* Conventions.                                                            *)
(*  - A name (OsString, filename3) is a sequence of characters; a Symbol   *)
(*    of the interner is identified with the name it was interned for, and *)
(*    the variable intern is the set of names interned so far.             *)
(*  - Option<T> is a sequence of length at most one: None is << >> and     *)
(*    Some(x) is <<x>>.                                                    *)
(*  - A host path is a sequence of names whose head is a mount source.     *)
(*  - Host metadata is [ftype, stamp, ino]: stamp stands for the fields    *)
(*    size, mtime, ctime, mode, uid, gid, nlink together (any change of    *)
(*    one of them is a new stamp), ino identifies the inode so that hard   *)
(*    links share it.                                                      *)
(***************************************************************************)
EXTENDS Integers, Sequences, FiniteSets, TLC

VARIABLES
    next_fileid,    \* FSMap.next_fileid
    intern,         \* FSMap.intern: the names interned so far
    id_to_path,     \* FSMap.id_to_path: fileid -> FSEntry
    path_to_id,     \* FSMap.path_to_id: symbolic path -> fileid
    read_only,      \* MirrorFS.read_only
    host,           \* the host filesystem: host path -> metadata
    clock,          \* host time: the stamp of the latest host mutation
    rd,             \* one call of read on a regular file: arguments and result
    wr,             \* one call of write on a regular file: arguments and result
    lock,           \* the tasks holding the guard of MirrorFS.fsmap
    task,           \* the handler each client task runs and its position in it
    conf            \* one call of Config::validate: the configuration and the result

vars == <<next_fileid, intern, id_to_path, path_to_id, read_only, host, clock, rd,
          wr, lock, task, conf>>

---------------------------------------------------------------------------
(* Bounds of the model. *)

\* The number of host mutations (by handlers or out-of-band) in one run.
MaxClock == 2

\* The fileids handed out in one run: next_fileid never exceeds this.
MaxFileid == 6

\* The length of the files read is called on.
MaxLen == 3

\* The widths, in bits, the model gives to the u64 offset and the u32 count
\* of read.
OffsetBits == 4
CountBits == 2

\* File names clients and out-of-band writers use.
Names == { <<"x">>, <<"y">> }

\* The orders in which the host may enumerate a directory (read_dir promises
\* none).
ListOrders == { << <<"x">>, <<"y">> >>, << <<"y">>, <<"x">> >> }

---------------------------------------------------------------------------
(* Generic helpers. *)

None == << >>

Some(x) == <<x>>

Put(f, k, v) == [x \in (DOMAIN f) \cup {k} |-> IF x = k THEN v ELSE f[x]]

Del(f, S) == [x \in (DOMAIN f) \ S |-> f[x]]

Parent(p) == SubSeq(p, 1, Len(p) - 1)

IsPrefix(p, q) == Len(p) <= Len(q) /\ SubSeq(q, 1, Len(p)) = p

IsProperPrefix(p, q) == Len(p) < Len(q) /\ SubSeq(q, 1, Len(p)) = p

---------------------------------------------------------------------------
(* Configuration: the mount table handed to MirrorFS::new_with_mounts. *)

mounts ==
    << [target |-> <<"/", "a">>, source |-> <<"A">>, read_only |-> FALSE],
       [target |-> <<"/", "b">>, source |-> <<"B">>, read_only |-> TRUE] >>

RECURSIVE trim_start_matches(_)
trim_start_matches(s) ==
    IF s # << >> /\ Head(s) = "/" THEN trim_start_matches(Tail(s)) ELSE s

\* Variant of MountName that interns the target as configured.
MountName_keep_slash(m) == m.target

\* The name a mount is interned under: its target without leading slashes.
MountName(m) == trim_start_matches(m.target)

---------------------------------------------------------------------------
(* Config (src/src/config.rs).  A configuration is [port, mounts]; a mount  *)
(* is [source, target], where source is what the host holds at the source  *)
(* path ("absent", "file" or "dir", links followed) and target is a string.*)

default_port == 11451

Config_default == [port |-> default_port, mounts |-> << >>]

\* The first loop of validate: the error of the first mount that fails a
\* check, "" when none does.
RECURSIVE check_mounts(_, _)
check_mounts(ms, i) ==
    IF i > Len(ms) THEN ""
    ELSE IF ms[i].source = "absent" THEN "source does not exist"
    ELSE IF ms[i].source # "dir" THEN "source is not a directory"
    ELSE IF ms[i].target = << >> THEN "target path cannot be empty"
    ELSE IF Head(ms[i].target) # "/" THEN "target path must start with /"
    ELSE check_mounts(ms, i + 1)

\* The second loop of validate: target_paths holds the targets seen so far.
RECURSIVE check_duplicates(_, _, _)
check_duplicates(ms, i, target_paths) ==
    IF i > Len(ms) THEN ""
    ELSE IF ms[i].target \in target_paths THEN "duplicate target path"
    ELSE check_duplicates(ms, i + 1, target_paths \cup {ms[i].target})

\* Variant of validate without the check for duplicate targets.
validate_no_duplicates(config) ==
    IF config.mounts = << >> THEN "At least one mount point must be configured"
    ELSE IF check_mounts(config.mounts, 1) # "" THEN check_mounts(config.mounts, 1)
    ELSE IF config.port = 0 THEN "Server port cannot be 0"
    ELSE ""

\* Result<(), String>: "" for Ok(()).
validate(config) ==
    IF config.mounts = << >> THEN "At least one mount point must be configured"
    ELSE IF check_mounts(config.mounts, 1) # "" THEN check_mounts(config.mounts, 1)
    ELSE IF check_duplicates(config.mounts, 1, {}) # ""
         THEN check_duplicates(config.mounts, 1, {})
    ELSE IF config.port = 0 THEN "Server port cannot be 0"
    ELSE ""

---------------------------------------------------------------------------
(* The host filesystem. *)

HostObj(ft, t, i) == [ftype |-> ft, stamp |-> t, ino |-> i]

\* The parent directory's mtime changes when an entry is added or removed.
BumpParent(h, p, t) ==
    IF Len(p) > 1 /\ Parent(p) \in DOMAIN h
    THEN [h EXCEPT ![Parent(p)].stamp = t]
    ELSE h

\* Every name of the inode at p sees the change.
HostTouch(h, p, t) ==
    [q \in DOMAIN h |-> IF h[q].ino = h[p].ino THEN [h[q] EXCEPT !.stamp = t] ELSE h[q]]

HostAdd(h, p, ft, t) == BumpParent(Put(h, p, HostObj(ft, t, t)), p, t)

\* unlink / rmdir / rm -r: p and what is below it go; the other names of
\* the inode see nlink change.
HostRemove(h, p, t) ==
    LET gone == {q \in DOMAIN h : IsPrefix(p, q)}
        h1   == HostTouch(h, p, t)
    IN  BumpParent(Del(h1, gone), p, t)

\* A path can be created when its parent is an existing directory (a mount
\* source has its parent outside the model).
HostCanCreate(h, p) ==
    /\ p \notin DOMAIN h
    /\ Len(p) > 1 => (Parent(p) \in DOMAIN h /\ h[Parent(p)].ftype = "NF3DIR")

\* The io::ErrorKind with which creating a new object at p fails (mkdir,
\* symlink, open with create_new); "" when it can be created.
HostCreateError(h, p) ==
    IF p \in DOMAIN h THEN "AlreadyExists"
    ELSE IF Len(p) > 1 /\ Parent(p) \notin DOMAIN h THEN "NotFound"
    ELSE IF Len(p) > 1 /\ h[Parent(p)].ftype # "NF3DIR" THEN "NotADirectory"
    ELSE ""

\* The io::ErrorKind with which File::create (open, create, truncate) of p
\* fails; "" when it succeeds.
HostOpenCreateError(h, p) ==
    IF p \in DOMAIN h
    THEN IF h[p].ftype = "NF3REG" THEN "" ELSE "Other"
    ELSE HostCreateError(h, p)

HostHasChildren(h, p) == \E q \in DOMAIN h : IsProperPrefix(p, q)

\* rename(2). ok = FALSE stands for any error of the syscall.
HostRename(h, from, to, t) ==
    IF from \notin DOMAIN h \/ Parent(to) \notin DOMAIN h
          \/ h[Parent(to)].ftype # "NF3DIR" THEN [ok |-> FALSE, h |-> h]
    ELSE IF from = to THEN [ok |-> TRUE, h |-> h]
    ELSE IF to \in DOMAIN h /\ h[to].ino = h[from].ino THEN [ok |-> TRUE, h |-> h]
    ELSE IF IsPrefix(from, to) THEN [ok |-> FALSE, h |-> h]
    ELSE IF to \in DOMAIN h /\ h[from].ftype = "NF3DIR"
              /\ (h[to].ftype # "NF3DIR" \/ HostHasChildren(h, to))
         THEN [ok |-> FALSE, h |-> h]
    ELSE IF to \in DOMAIN h /\ h[from].ftype # "NF3DIR" /\ h[to].ftype = "NF3DIR"
         THEN [ok |-> FALSE, h |-> h]
    ELSE
        LET h0    == IF to \in DOMAIN h THEN HostTouch(h, to, t) ELSE h
            moved == {q \in DOMAIN h0 : IsPrefix(from, q)}
            dest(q) == to \o SubSeq(q, Len(from) + 1, Len(q))
            keep  == (DOMAIN h0 \ moved) \ {q \in DOMAIN h0 : IsPrefix(to, q)}
            h1    == [q \in keep \cup {dest(m) : m \in moved} |->
                        IF q \in keep THEN h0[q]
                        ELSE h0[from \o SubSeq(q, Len(to) + 1, Len(q))]]
            h2    == HostTouch(h1, to, t)
        IN  [ok |-> TRUE, h |-> BumpParent(BumpParent(h2, from, t), to, t)]

\* link(2). err is "" on success.
HostLink(h, file, link, t) ==
    IF file \notin DOMAIN h \/ Parent(link) \notin DOMAIN h
        THEN [err |-> "NotFound", h |-> h]
    ELSE IF h[Parent(link)].ftype # "NF3DIR" THEN [err |-> "Other", h |-> h]
    ELSE IF link \in DOMAIN h THEN [err |-> "AlreadyExists", h |-> h]
    ELSE IF h[file].ftype = "NF3DIR" THEN [err |-> "PermissionDenied", h |-> h]
    ELSE [err |-> "",
          h |-> BumpParent(HostTouch(Put(h, link, h[file]), file, t), link, t)]

---------------------------------------------------------------------------
(* Attributes (zerofs_nfsserve::fs_util, an external crate).               *)

metadata_to_fattr3(id, meta) ==
    [ftype |-> meta.ftype, stamp |-> meta.stamp, fileid |-> id]

fattr3_differ(lhs, rhs) == lhs.ftype # rhs.ftype \/ lhs.stamp # rhs.stamp

exists_no_traverse(h, p) == p \in DOMAIN h

---------------------------------------------------------------------------
(* FSMap. A map state is the record                                        *)
(*   [next_fileid, intern, id_to_path, path_to_id].                        *)

FSEntry(n, m, cm, ch) == [name |-> n, fsmeta |-> m, children_meta |-> cm, children |-> ch]

sym_to_real_path(fs, symlist) ==
    IF symlist = << >> THEN None
    ELSE IF symlist[1] \notin fs.intern THEN None
    ELSE LET hit == {i \in DOMAIN mounts : MountName(mounts[i]) = symlist[1]}
         IN  IF hit = {} THEN None
             ELSE LET i == CHOOSE j \in hit : \A k \in hit : j <= k
                  IN  Some([path |-> <<mounts[i].source>> \o Tail(symlist),
                            read_only |-> mounts[i].read_only])

\* The path sym_to_path builds: the components joined, relative to the
\* working directory of the server.
sym_to_path(fs, symlist) == << <<".">> >> \o symlist

sym_to_fname(fs, symlist) ==
    IF symlist = << >> THEN << >> ELSE symlist[Len(symlist)]

\* The ids collect_all_children pushes: id and everything reachable from it
\* through children sets. seen guards the model against a cyclic relation.
RECURSIVE collect_from(_, _, _)
collect_from(fs, todo, seen) ==
    IF todo = {} THEN seen
    ELSE LET id == CHOOSE i \in todo : TRUE
             ch == IF id \in DOMAIN fs.id_to_path /\ fs.id_to_path[id].children # None
                   THEN fs.id_to_path[id].children[1] ELSE {}
         IN  collect_from(fs, (todo \cup ch) \ (seen \cup {id}), seen \cup {id})

collect_all_children(fs, id) == collect_from(fs, {id}, {})

delete_entry(fs, id) ==
    LET children == collect_all_children(fs, id)
        removed  == children \cap DOMAIN fs.id_to_path
        names    == {fs.id_to_path[i].name : i \in removed}
    IN  [fs EXCEPT !.id_to_path = Del(fs.id_to_path, removed),
                   !.path_to_id = Del(fs.path_to_id, names)]

\* Result<FSEntry, nfsstat3>: err is "" for Ok.
find_entry(fs, id) ==
    IF id \in DOMAIN fs.id_to_path
    THEN [err |-> "", ent |-> fs.id_to_path[id]]
    ELSE [err |-> "NFS3ERR_NOENT", ent |-> None]

find_child(fs, id, filename) ==
    IF id \notin DOMAIN fs.id_to_path THEN [err |-> "NFS3ERR_NOENT", id |-> 0]
    ELSE IF filename \notin fs.intern THEN [err |-> "NFS3ERR_NOENT", id |-> 0]
    ELSE LET name == Append(fs.id_to_path[id].name, filename)
         IN  IF name \in DOMAIN fs.path_to_id
             THEN [err |-> "", id |-> fs.path_to_id[name]]
             ELSE [err |-> "NFS3ERR_NOENT", id |-> 0]

\* Variant of create_entry that hands out the smallest fileid not in use.
create_entry_reuse(fs, fullpath, meta) ==
    IF fullpath \in DOMAIN fs.path_to_id
    THEN [fs |-> fs, id |-> fs.path_to_id[fullpath]]
    ELSE LET free      == {i \in 1 .. fs.next_fileid : i \notin DOMAIN fs.id_to_path}
             next_id   == CHOOSE i \in free : \A j \in free : i <= j
             metafattr == metadata_to_fattr3(next_id, meta)
         IN  [fs |-> [fs EXCEPT !.next_fileid = IF next_id = fs.next_fileid
                                               THEN next_id + 1 ELSE fs.next_fileid,
                                !.id_to_path = Put(fs.id_to_path, next_id,
                                                   FSEntry(fullpath, metafattr, metafattr, None)),
                                !.path_to_id = Put(fs.path_to_id, fullpath, next_id)],
              id |-> next_id]

\* Variant of create_entry that allocates a fileid also for a bound path.
create_entry_rebind(fs, fullpath, meta) ==
    LET next_id   == fs.next_fileid
        metafattr == metadata_to_fattr3(next_id, meta)
    IN  [fs |-> [fs EXCEPT !.next_fileid = next_id + 1,
                           !.id_to_path = Put(fs.id_to_path, next_id,
                                              FSEntry(fullpath, metafattr, metafattr, None)),
                           !.path_to_id = Put(fs.path_to_id, fullpath, next_id)],
         id |-> next_id]

create_entry(fs, fullpath, meta) ==
    IF fullpath \in DOMAIN fs.path_to_id
    THEN LET chid == fs.path_to_id[fullpath]
         IN  [fs |-> IF chid \in DOMAIN fs.id_to_path
                     THEN [fs EXCEPT !.id_to_path[chid].fsmeta = metadata_to_fattr3(chid, meta)]
                     ELSE fs,
              id |-> chid]
    ELSE LET next_id   == fs.next_fileid
             metafattr == metadata_to_fattr3(next_id, meta)
         IN  [fs |-> [fs EXCEPT !.next_fileid = next_id + 1,
                                !.id_to_path = Put(fs.id_to_path, next_id,
                                                   FSEntry(fullpath, metafattr, metafattr, None)),
                                !.path_to_id = Put(fs.path_to_id, fullpath, next_id)],
              id |-> next_id]

\* Variant of refresh_entry that reports an in-place modification without
\* storing the new metadata.
refresh_entry_keep(fs, h, id) ==
    IF id \notin DOMAIN fs.id_to_path
    THEN [fs |-> fs, err |-> "NFS3ERR_NOENT", res |-> "Noop"]
    ELSE
    LET entry == fs.id_to_path[id]
        rp    == sym_to_real_path(fs, entry.name)
    IN  IF rp = None
        THEN [fs |-> fs, err |-> "", res |-> "Noop"]
        ELSE
        LET real_path == rp[1].path IN
        IF ~exists_no_traverse(h, real_path)
        THEN [fs |-> delete_entry(fs, id), err |-> "", res |-> "Delete"]
        ELSE
        LET meta == metadata_to_fattr3(id, h[real_path]) IN
        IF ~fattr3_differ(meta, entry.fsmeta)
        THEN [fs |-> fs, err |-> "", res |-> "Noop"]
        ELSE IF entry.fsmeta.ftype # meta.ftype
        THEN [fs |-> delete_entry(fs, id), err |-> "", res |-> "Delete"]
        ELSE [fs |-> fs, err |-> "", res |-> "Reload"]

\* Variant of refresh_entry whose Reload also forgets the children.
refresh_entry_forget(fs, h, id) ==
    IF id \notin DOMAIN fs.id_to_path
    THEN [fs |-> fs, err |-> "NFS3ERR_NOENT", res |-> "Noop"]
    ELSE
    LET entry == fs.id_to_path[id]
        rp    == sym_to_real_path(fs, entry.name)
    IN  IF rp = None
        THEN \* the root, or a name no mount matches
             [fs |-> fs, err |-> "", res |-> "Noop"]
        ELSE
        LET real_path == rp[1].path IN
        IF ~exists_no_traverse(h, real_path)
        THEN [fs |-> delete_entry(fs, id), err |-> "", res |-> "Delete"]
        ELSE
        LET meta == metadata_to_fattr3(id, h[real_path]) IN
        IF ~fattr3_differ(meta, entry.fsmeta)
        THEN [fs |-> fs, err |-> "", res |-> "Noop"]
        ELSE IF entry.fsmeta.ftype # meta.ftype
        THEN [fs |-> delete_entry(fs, id), err |-> "", res |-> "Delete"]
        ELSE [fs |-> [fs EXCEPT !.id_to_path[id].fsmeta = meta,
                                !.id_to_path[id].children = None],
              err |-> "", res |-> "Reload"]

\* Result<RefreshResult, nfsstat3>: err is "" for Ok(res).
refresh_entry(fs, h, id) ==
    IF id \notin DOMAIN fs.id_to_path
    THEN [fs |-> fs, err |-> "NFS3ERR_NOENT", res |-> "Noop"]
    ELSE
    LET entry == fs.id_to_path[id]
        rp    == sym_to_real_path(fs, entry.name)
    IN  IF rp = None
        THEN \* the root, or a name no mount matches
             [fs |-> fs, err |-> "", res |-> "Noop"]
        ELSE
        LET real_path == rp[1].path IN
        IF ~exists_no_traverse(h, real_path)
        THEN [fs |-> delete_entry(fs, id), err |-> "", res |-> "Delete"]
        ELSE
        LET meta == metadata_to_fattr3(id, h[real_path]) IN
        IF ~fattr3_differ(meta, entry.fsmeta)
        THEN [fs |-> fs, err |-> "", res |-> "Noop"]
        ELSE IF entry.fsmeta.ftype # meta.ftype
        THEN [fs |-> delete_entry(fs, id), err |-> "", res |-> "Delete"]
        ELSE [fs |-> [fs EXCEPT !.id_to_path[id].fsmeta = meta],
              err |-> "", res |-> "Reload"]

\* The loop of refresh_dir_list over the configured mounts (the root).
RECURSIVE list_mounts(_, _, _, _)
list_mounts(fs, h, i, acc) ==
    IF i > Len(mounts) THEN [fs |-> fs, ids |-> acc]
    ELSE LET target_sym == MountName(mounts[i])
             fs1 == [fs EXCEPT !.intern = fs.intern \cup {target_sym}]
             src == <<mounts[i].source>>
         IN  IF src \in DOMAIN h
             THEN LET r == create_entry(fs1, <<target_sym>>, h[src])
                  IN  list_mounts(r.fs, h, i + 1, acc \cup {r.id})
             ELSE list_mounts(fs1, h, i + 1, acc)

\* The loop of refresh_dir_list over the entries of a host directory, which
\* the host enumerates in the order ord.
RECURSIVE list_dir(_, _, _, _, _, _)
list_dir(fs, h, cur_path, real_path, ord, acc) ==
    IF ord = << >> THEN [fs |-> fs, ids |-> acc]
    ELSE LET fname == Head(ord)
             p     == Append(real_path, fname)
         IN  IF p \in DOMAIN h
             THEN LET fs1 == [fs EXCEPT !.intern = fs.intern \cup {fname}]
                      r   == create_entry(fs1, Append(cur_path, fname), h[p])
                  IN  list_dir(r.fs, h, cur_path, real_path, Tail(ord), acc \cup {r.id})
             ELSE list_dir(fs, h, cur_path, real_path, Tail(ord), acc)

\* Result<(), nfsstat3>: err is "" for Ok.
refresh_dir_list(fs, h, id, ord) ==
    IF id \notin DOMAIN fs.id_to_path THEN [fs |-> fs, err |-> "NFS3ERR_NOENT"]
    ELSE
    LET entry == fs.id_to_path[id] IN
    IF entry.children # None /\ ~fattr3_differ(entry.children_meta, entry.fsmeta)
    THEN [fs |-> fs, err |-> ""]
    ELSE IF entry.fsmeta.ftype # "NF3DIR" THEN [fs |-> fs, err |-> ""]
    ELSE
    LET listed ==
            IF entry.name = << >> THEN Some(list_mounts(fs, h, 1, {}))
            ELSE LET rp == sym_to_real_path(fs, entry.name)
                 IN  IF rp = None THEN None
                     ELSE IF rp[1].path \in DOMAIN h /\ h[rp[1].path].ftype = "NF3DIR"
                          THEN Some(list_dir(fs, h, entry.name, rp[1].path, ord, {}))
                          ELSE Some([fs |-> fs, ids |-> {}])
    IN  IF listed = None THEN [fs |-> fs, err |-> ""]
        ELSE IF id \notin DOMAIN listed[1].fs.id_to_path
             THEN [fs |-> listed[1].fs, err |-> "NFS3ERR_NOENT"]
             ELSE [fs |-> [listed[1].fs EXCEPT !.id_to_path[id].children = Some(listed[1].ids)],
                   err |-> ""]

---------------------------------------------------------------------------
(* MirrorFS: the NFSv3 handlers. Each handler is an operator from the map  *)
(* state fs, the host h (and the host time t of a mutation it makes) to    *)
(*   [fs, host, status, id, val]:                                          *)
(* the map and host it leaves, the nfsstat3 it returns ("NFS3_OK" for Ok,  *)
(* "PANIC" when the task panics), the fileid it returns or acts on, and    *)
(* the value it returns.                                                   *)

Ret(fs, h, status, id, val) ==
    [fs |-> fs, host |-> h, status |-> status, id |-> id, val |-> val]

\* The name of the mount a one-component symbolic path names, compared with
\* filename as lookup does for a directory that does not resolve.
IsOwnMountName(name, filename) ==
    /\ Len(name) = 1
    /\ \E i \in DOMAIN mounts : MountName(mounts[i]) = name[1] /\ filename = name[1]

lookup(fs, h, dirid, filename, ord) ==
    LET hit == find_child(fs, dirid, filename) IN
    IF hit.err = "" /\ hit.id \in DOMAIN fs.id_to_path
    THEN Ret(fs, h, "NFS3_OK", hit.id, None)
    ELSE
    LET dirent == find_entry(fs, dirid) IN
    IF dirent.err # "" THEN Ret(fs, h, dirent.err, 0, None)
    ELSE
    LET rp == sym_to_real_path(fs, dirent.ent.name) IN
    IF rp = None
    THEN IF IsOwnMountName(dirent.ent.name, filename)
         THEN Ret(fs, h, "NFS3_OK", dirid, None)
         ELSE Ret(fs, h, "NFS3ERR_NOENT", 0, None)
    ELSE
    LET path == Append(rp[1].path, filename) IN
    IF ~exists_no_traverse(h, path) THEN Ret(fs, h, "NFS3ERR_NOENT", 0, None)
    ELSE
    LET r1 == refresh_entry(fs, h, dirid) IN
    IF r1.err # "" THEN Ret(r1.fs, h, r1.err, 0, None)
    ELSE IF r1.res = "Delete" THEN Ret(r1.fs, h, "NFS3ERR_NOENT", 0, None)
    ELSE
    LET r2 == refresh_dir_list(r1.fs, h, dirid, ord)
        c  == find_child(r2.fs, dirid, filename)
    IN  IF c.err = "" THEN Ret(r2.fs, h, "NFS3_OK", c.id, None)
        ELSE Ret(r2.fs, h, c.err, 0, None)

getattr(fs, h, id) ==
    LET r == refresh_entry(fs, h, id) IN
    IF r.err # "" THEN Ret(r.fs, h, r.err, id, None)
    ELSE IF r.res = "Delete" THEN Ret(r.fs, h, "NFS3ERR_NOENT", id, None)
    ELSE LET ent == find_entry(r.fs, id)
         IN  IF ent.err # "" THEN Ret(r.fs, h, ent.err, id, None)
             ELSE Ret(r.fs, h, "NFS3_OK", id, ent.ent.fsmeta)

\* The children after the cursor, in fileid order, as readdir walks them.
RECURSIVE SortedSeq(_)
SortedSeq(S) ==
    IF S = {} THEN << >>
    ELSE LET m == CHOOSE x \in S : \A y \in S : x <= y
         IN  <<m>> \o SortedSeq(S \ {m})

\* The loop of readdir: err is the status of a failed find_entry.
RECURSIVE readdir_loop(_, _, _, _)
readdir_loop(fs, rest, max_entries, entries) ==
    IF rest = << >> THEN [err |-> "", entries |-> entries]
    ELSE LET fileid  == Head(rest)
             fileent == find_entry(fs, fileid)
         IN  IF fileent.err # "" THEN [err |-> fileent.err, entries |-> entries]
             ELSE LET e == [fileid |-> fileid,
                            name   |-> sym_to_fname(fs, fileent.ent.name),
                            attr   |-> fileent.ent.fsmeta]
                      es == Append(entries, e)
                  IN  IF Len(es) >= max_entries
                      THEN [err |-> "", entries |-> es]
                      ELSE readdir_loop(fs, Tail(rest), max_entries, es)

\* Variant of readdir that walks the children from the first one whatever
\* the cursor.
readdir_no_cursor(fs, h, dirid, start_after, max_entries, ord) ==
    LET r1 == refresh_entry(fs, h, dirid) IN
    IF r1.err # "" THEN Ret(r1.fs, h, r1.err, dirid, None)
    ELSE
    LET r2 == refresh_dir_list(r1.fs, h, dirid, ord) IN
    IF r2.err # "" THEN Ret(r2.fs, h, r2.err, dirid, None)
    ELSE
    LET entry == find_entry(r2.fs, dirid) IN
    IF entry.err # "" THEN Ret(r2.fs, h, entry.err, dirid, None)
    ELSE IF entry.ent.fsmeta.ftype # "NF3DIR" THEN Ret(r2.fs, h, "NFS3ERR_NOTDIR", dirid, None)
    ELSE IF entry.ent.children = None THEN Ret(r2.fs, h, "NFS3ERR_IO", dirid, None)
    ELSE
    LET children  == entry.ent.children[1]
        range     == children
        remaining == Cardinality(range)
        walk      == readdir_loop(r2.fs, SortedSeq(range), max_entries, << >>)
    IN  IF walk.err # "" THEN Ret(r2.fs, h, walk.err, dirid, None)
        ELSE Ret(r2.fs, h, "NFS3_OK", dirid,
                 [entries |-> walk.entries, end |-> (Len(walk.entries) = remaining)])

readdir(fs, h, dirid, start_after, max_entries, ord) ==
    LET r1 == refresh_entry(fs, h, dirid) IN
    IF r1.err # "" THEN Ret(r1.fs, h, r1.err, dirid, None)
    ELSE
    LET r2 == refresh_dir_list(r1.fs, h, dirid, ord) IN
    IF r2.err # "" THEN Ret(r2.fs, h, r2.err, dirid, None)
    ELSE
    LET entry == find_entry(r2.fs, dirid) IN
    IF entry.err # "" THEN Ret(r2.fs, h, entry.err, dirid, None)
    ELSE IF entry.ent.fsmeta.ftype # "NF3DIR" THEN Ret(r2.fs, h, "NFS3ERR_NOTDIR", dirid, None)
    ELSE IF entry.ent.children = None THEN Ret(r2.fs, h, "NFS3ERR_IO", dirid, None)
    ELSE
    LET children  == entry.ent.children[1]
        range     == IF start_after > 0 THEN {c \in children : c > start_after} ELSE children
        remaining == Cardinality(range)
        walk      == readdir_loop(r2.fs, SortedSeq(range), max_entries, << >>)
    IN  IF walk.err # "" THEN Ret(r2.fs, h, walk.err, dirid, None)
        ELSE Ret(r2.fs, h, "NFS3_OK", dirid,
                 [entries |-> walk.entries, end |-> (Len(walk.entries) = remaining)])

\* The part of read that runs under the guard of fsmap: err is the status
\* of an early return, "" when the host path is resolved.
read_locked(fs, id) ==
    LET ent == find_entry(fs, id) IN
    IF ent.err # "" THEN [err |-> ent.err, path |-> << >>]
    ELSE
    LET rp == sym_to_real_path(fs, ent.ent.name) IN
    IF rp = None THEN [err |-> "NFS3ERR_ISDIR", path |-> << >>]
    ELSE [err |-> "", path |-> rp[1].path]

\* The file-data phase of read, without the bytes (read_range below computes
\* them): the status of opening the host object at path and reading a
\* non-empty range from it.  A directory opens, and reading it fails.
read_file(h, path) ==
    IF path \notin DOMAIN h THEN "NFS3ERR_NOENT"
    ELSE IF h[path].ftype = "NF3REG" THEN "NFS3_OK"
    ELSE IF h[path].ftype = "NF3DIR" THEN "NFS3ERR_IO"
    ELSE "NFS3ERR_NOENT"

read(fs, h, id) ==
    LET l == read_locked(fs, id) IN
    IF l.err # "" THEN Ret(fs, h, l.err, id, None)
    ELSE Ret(fs, h, read_file(h, l.path), id, None)

RECURSIVE Pow2(_)
Pow2(n) == IF n = 0 THEN 1 ELSE 2 * Pow2(n - 1)

\* The byte range read returns for a file holding bytes: the arithmetic on
\* offset: u64 and count: u32, the clamping to the length and the read.
\* offset + count overflows u64 for large offsets: a build with overflow
\* checks panics there, one without wraps around, and then allocating
\* (end - start) bytes with end < start panics.
read_range(bytes, offset, count, overflow_checks) ==
    LET len  == Len(bytes)
        sum  == offset + count
        wrap == sum >= Pow2(OffsetBits)
        end0 == sum % Pow2(OffsetBits)
        eof  == end0 >= len
        start == IF offset >= len THEN len ELSE offset
        end   == IF end0 > len THEN len ELSE end0
    IN  IF wrap /\ overflow_checks
        THEN [status |-> "PANIC", data |-> << >>, eof |-> FALSE]
        ELSE IF end < start
        THEN [status |-> "PANIC", data |-> << >>, eof |-> FALSE]
        ELSE [status |-> "NFS3_OK", data |-> SubSeq(bytes, start + 1, end), eof |-> eof]

\* Variant of write_range for a file opened with truncate(true).
write_range_truncate(bytes, offset, data) ==
    IF offset >= Pow2(OffsetBits - 1) \/ offset + Len(data) >= Pow2(OffsetBits - 1)
    THEN [status |-> "NFS3ERR_IO", bytes |-> << >>, size |-> 0]
    ELSE LET new == [k \in 1 .. (offset + Len(data)) |->
                        IF k > offset THEN data[k - offset] ELSE 0]
         IN  [status |-> "NFS3_OK", bytes |-> new, size |-> Len(new)]

\* The content write leaves in a file holding bytes, opened without
\* truncation, and the size its metadata then reports: seek to offset (an
\* offset above i64::MAX is refused), write_all of data (nothing is written
\* for empty data; a write beyond the largest file offset fails; the bytes
\* between the old end and offset read as zero).  Every error is io.
write_range(bytes, offset, data) ==
    LET len == Len(bytes)
        end == offset + Len(data)
    IN  IF offset >= Pow2(OffsetBits - 1)
        THEN [status |-> "NFS3ERR_IO", bytes |-> bytes, size |-> len]
        ELSE IF data = << >>
        THEN [status |-> "NFS3_OK", bytes |-> bytes, size |-> len]
        ELSE IF end >= Pow2(OffsetBits - 1)
        THEN [status |-> "NFS3ERR_IO", bytes |-> bytes, size |-> len]
        ELSE LET newlen == IF end > len THEN end ELSE len
                 new == [k \in 1 .. newlen |->
                            IF k > offset /\ k <= end THEN data[k - offset]
                            ELSE IF k <= len THEN bytes[k]
                            ELSE 0]
             IN  [status |-> "NFS3_OK", bytes |-> new, size |-> Len(new)]

\* path_setattr and the stat after it act on sym_to_path's path.
setattr(fs, h, t, id) ==
    LET entry == find_entry(fs, id) IN
    IF entry.err # "" THEN Ret(fs, h, entry.err, id, None)
    ELSE
    LET path == sym_to_path(fs, entry.ent.name) IN
    IF path \notin DOMAIN h THEN Ret(fs, h, "NFS3ERR_IO", id, None)
    ELSE LET h1   == HostTouch(h, path, t)
             meta == metadata_to_fattr3(id, h1[path])
         IN  Ret([fs EXCEPT !.id_to_path[id].fsmeta = meta], h1, "NFS3_OK", id, meta)

\* The part of write up to the release of the guard of fsmap: err is the
\* status of an early return, "" when the host path is resolved.
write_locked(fs, ro, id) ==
    IF ro THEN [err |-> "NFS3ERR_ROFS", path |-> << >>]
    ELSE
    LET ent == find_entry(fs, id) IN
    IF ent.err # "" THEN [err |-> ent.err, path |-> << >>]
    ELSE
    LET rp == sym_to_real_path(fs, ent.ent.name) IN
    IF rp = None THEN [err |-> "NFS3ERR_ISDIR", path |-> << >>]
    ELSE IF rp[1].read_only THEN [err |-> "NFS3ERR_ROFS", path |-> << >>]
    ELSE [err |-> "", path |-> rp[1].path]

\* The file-data phase of write (write_range below computes the bytes): the
\* host it leaves and its status.
write_file(h, t, path) ==
    IF path \in DOMAIN h
    THEN IF h[path].ftype = "NF3REG"
         THEN [h |-> HostTouch(h, path, t), status |-> "NFS3_OK"]
         ELSE [h |-> h, status |-> "NFS3ERR_IO"]
    ELSE IF HostCanCreate(h, path)
         THEN \* OpenOptions .create(true): the file comes into existence
              [h |-> HostAdd(h, path, "NF3REG", t), status |-> "NFS3_OK"]
         ELSE [h |-> h, status |-> "NFS3ERR_IO"]

write(fs, h, t, ro, id) ==
    LET l == write_locked(fs, ro, id) IN
    IF l.err # "" THEN Ret(fs, h, l.err, id, None)
    ELSE LET io == write_file(h, t, l.path)
         IN  IF io.status = "NFS3_OK"
             THEN Ret(fs, io.h, "NFS3_OK", id, metadata_to_fattr3(id, io.h[l.path]))
             ELSE Ret(fs, h, io.status, id, None)

\* The type-specific syscall of create_fs_object: err is the status the
\* handler returns when it fails, "" when the object now exists.  Every
\* error of create_dir, File::create and symlink becomes io, every error of
\* the create_new open becomes exist.
create_syscall(h, t, path, object) ==
    IF object = "Directory"
    THEN IF exists_no_traverse(h, path) THEN [err |-> "NFS3ERR_EXIST", h |-> h]
         ELSE IF HostCreateError(h, path) = ""
              THEN [err |-> "", h |-> HostAdd(h, path, "NF3DIR", t)]
         ELSE [err |-> "NFS3ERR_IO", h |-> h]
    ELSE IF object = "File"
    THEN IF HostOpenCreateError(h, path) # "" THEN [err |-> "NFS3ERR_IO", h |-> h]
         ELSE IF path \in DOMAIN h
              THEN [err |-> "", h |-> HostTouch(h, path, t)]   \* truncated
         ELSE [err |-> "", h |-> HostAdd(h, path, "NF3REG", t)]
    ELSE IF object = "Exclusive"
    THEN IF HostCreateError(h, path) = ""
         THEN [err |-> "", h |-> HostAdd(h, path, "NF3REG", t)]
         ELSE [err |-> "NFS3ERR_EXIST", h |-> h]
    ELSE \* Symlink
         IF exists_no_traverse(h, path) THEN [err |-> "NFS3ERR_EXIST", h |-> h]
         ELSE IF HostCreateError(h, path) = ""
              THEN [err |-> "", h |-> HostAdd(h, path, "NF3LNK", t)]
         ELSE [err |-> "NFS3ERR_IO", h |-> h]

create_fs_object(fs, h, t, ro, dirid, objectname, object) ==
    IF ro THEN Ret(fs, h, "NFS3ERR_ROFS", 0, None)
    ELSE
    LET ent == find_entry(fs, dirid) IN
    IF ent.err # "" THEN Ret(fs, h, ent.err, 0, None)
    ELSE
    LET rp == sym_to_real_path(fs, ent.ent.name) IN
    IF rp = None THEN Ret(fs, h, "NFS3ERR_ACCES", 0, None)
    ELSE IF rp[1].read_only THEN Ret(fs, h, "NFS3ERR_ROFS", 0, None)
    ELSE
    LET path == Append(rp[1].path, objectname)
        sys  == create_syscall(h, t, path, object)
    IN
    IF sys.err # "" THEN Ret(fs, h, sys.err, 0, None)
    ELSE
    LET h1     == sys.h
        r1     == refresh_entry(fs, h1, dirid)
        fs2    == [r1.fs EXCEPT !.intern = r1.fs.intern \cup {objectname}]
        name   == Append(ent.ent.name, objectname)
        meta   == h1[path]
        c      == create_entry(fs2, name, meta)
        fileid == c.id
    IN  IF dirid \notin DOMAIN c.fs.id_to_path
        THEN Ret(c.fs, h1, "NFS3ERR_NOENT", 0, None)
        ELSE LET ch  == c.fs.id_to_path[dirid].children
                 fs3 == IF ch # None
                        THEN [c.fs EXCEPT !.id_to_path[dirid].children = Some(ch[1] \cup {fileid})]
                        ELSE c.fs
             IN  Ret(fs3, h1, "NFS3_OK", fileid, metadata_to_fattr3(fileid, meta))

create(fs, h, t, ro, dirid, filename) ==
    create_fs_object(fs, h, t, ro, dirid, filename, "File")

create_exclusive(fs, h, t, ro, dirid, filename) ==
    create_fs_object(fs, h, t, ro, dirid, filename, "Exclusive")

mkdir(fs, h, t, ro, dirid, dirname) ==
    create_fs_object(fs, h, t, ro, dirid, dirname, "Directory")

symlink(fs, h, t, ro, dirid, linkname) ==
    create_fs_object(fs, h, t, ro, dirid, linkname, "Symlink")

mknod(fs, h, t, ro, dirid, filename, ftype) ==
    IF ftype \in {"NF3CHR", "NF3BLK"}
    THEN create_fs_object(fs, h, t, ro, dirid, filename, "File")
    ELSE IF ftype \in {"NF3SOCK", "NF3FIFO"}
    THEN create_fs_object(fs, h, t, ro, dirid, filename, "File")
    ELSE Ret(fs, h, "NFS3ERR_BADTYPE", 0, None)

readlink(fs, h, id) ==
    LET ent == find_entry(fs, id) IN
    IF ent.err # "" THEN Ret(fs, h, ent.err, id, None)
    ELSE
    LET rp == sym_to_real_path(fs, ent.ent.name) IN
    IF rp = None THEN Ret(fs, h, "NFS3ERR_BADTYPE", id, None)
    ELSE IF rp[1].path \in DOMAIN h /\ h[rp[1].path].ftype = "NF3LNK"
         THEN Ret(fs, h, "NFS3_OK", id, h[rp[1].path].ino)
         ELSE Ret(fs, h, "NFS3ERR_BADTYPE", id, None)

\* Variant of remove that leaves the removed fileid in the children set of
\* the directory.
remove_keep_child(fs, h, t, ro, dirid, filename) ==
    IF ro THEN Ret(fs, h, "NFS3ERR_ROFS", 0, None)
    ELSE
    LET ent == find_entry(fs, dirid) IN
    IF ent.err # "" THEN Ret(fs, h, ent.err, 0, None)
    ELSE
    LET rp == sym_to_real_path(fs, ent.ent.name) IN
    IF rp = None THEN Ret(fs, h, "NFS3ERR_ACCES", 0, None)
    ELSE IF rp[1].read_only THEN Ret(fs, h, "NFS3ERR_ROFS", 0, None)
    ELSE
    LET path == Append(rp[1].path, filename) IN
    IF path \notin DOMAIN h THEN Ret(fs, h, "NFS3ERR_NOENT", 0, None)
    ELSE IF h[path].ftype = "NF3DIR" /\ HostHasChildren(h, path)
    THEN Ret(fs, h, "NFS3ERR_IO", 0, None)      \* remove_dir of a non-empty directory
    ELSE
    LET h1      == HostRemove(h, path, t)
        fs1     == [fs EXCEPT !.intern = fs.intern \cup {filename}]
        sympath == Append(ent.ent.name, filename)
        bound   == sympath \in DOMAIN fs1.path_to_id
        fileid  == IF bound THEN fs1.path_to_id[sympath] ELSE 0
        fs2     == IF bound
                   THEN [fs1 EXCEPT !.id_to_path = Del(fs1.id_to_path, {fileid}),
                                    !.path_to_id = Del(fs1.path_to_id, {sympath})]
                   ELSE fs1
        fs3     == fs2
        r       == refresh_entry(fs3, h1, dirid)
    IN  Ret(r.fs, h1, "NFS3_OK", fileid, None)

remove(fs, h, t, ro, dirid, filename) ==
    IF ro THEN Ret(fs, h, "NFS3ERR_ROFS", 0, None)
    ELSE
    LET ent == find_entry(fs, dirid) IN
    IF ent.err # "" THEN Ret(fs, h, ent.err, 0, None)
    ELSE
    LET rp == sym_to_real_path(fs, ent.ent.name) IN
    IF rp = None THEN Ret(fs, h, "NFS3ERR_ACCES", 0, None)
    ELSE IF rp[1].read_only THEN Ret(fs, h, "NFS3ERR_ROFS", 0, None)
    ELSE
    LET path == Append(rp[1].path, filename) IN
    IF path \notin DOMAIN h THEN Ret(fs, h, "NFS3ERR_NOENT", 0, None)
    ELSE IF h[path].ftype = "NF3DIR" /\ HostHasChildren(h, path)
    THEN Ret(fs, h, "NFS3ERR_IO", 0, None)      \* remove_dir of a non-empty directory
    ELSE
    LET h1      == HostRemove(h, path, t)
        fs1     == [fs EXCEPT !.intern = fs.intern \cup {filename}]
        sympath == Append(ent.ent.name, filename)
        bound   == sympath \in DOMAIN fs1.path_to_id
        fileid  == IF bound THEN fs1.path_to_id[sympath] ELSE 0
        fs2     == IF bound
                   THEN [fs1 EXCEPT !.id_to_path = Del(fs1.id_to_path, {fileid}),
                                    !.path_to_id = Del(fs1.path_to_id, {sympath})]
                   ELSE fs1
        ch      == fs2.id_to_path[dirid].children
        fs3     == IF bound /\ dirid \in DOMAIN fs2.id_to_path /\ ch # None
                   THEN [fs2 EXCEPT !.id_to_path[dirid].children = Some(ch[1] \ {fileid})]
                   ELSE fs2
        r       == refresh_entry(fs3, h1, dirid)
    IN  Ret(r.fs, h1, "NFS3_OK", fileid, None)

\* The children-set updates of a cross-directory rename.
rename_children(fs, fileid, from_dirid, to_dirid) ==
    LET fs1 == IF from_dirid \in DOMAIN fs.id_to_path
                  /\ fs.id_to_path[from_dirid].children # None
               THEN [fs EXCEPT !.id_to_path[from_dirid].children =
                        Some(fs.id_to_path[from_dirid].children[1] \ {fileid})]
               ELSE fs
    IN  IF to_dirid \in DOMAIN fs1.id_to_path /\ fs1.id_to_path[to_dirid].children # None
        THEN [fs1 EXCEPT !.id_to_path[to_dirid].children =
                 Some(fs1.id_to_path[to_dirid].children[1] \cup {fileid})]
        ELSE fs1

rename(fs, h, t, ro, from_dirid, from_filename, to_dirid, to_filename) ==
    IF ro THEN Ret(fs, h, "NFS3ERR_ROFS", 0, None)
    ELSE
    LET from_dirent == find_entry(fs, from_dirid) IN
    IF from_dirent.err # "" THEN Ret(fs, h, from_dirent.err, 0, None)
    ELSE
    LET frp == sym_to_real_path(fs, from_dirent.ent.name) IN
    IF frp = None THEN Ret(fs, h, "NFS3ERR_ACCES", 0, None)
    ELSE
    LET to_dirent == find_entry(fs, to_dirid) IN
    IF to_dirent.err # "" THEN Ret(fs, h, to_dirent.err, 0, None)
    ELSE
    LET trp == sym_to_real_path(fs, to_dirent.ent.name) IN
    IF trp = None THEN Ret(fs, h, "NFS3ERR_ACCES", 0, None)
    ELSE IF frp[1].read_only \/ trp[1].read_only THEN Ret(fs, h, "NFS3ERR_ROFS", 0, None)
    ELSE
    LET from_path == Append(frp[1].path, from_filename)
        to_path   == Append(trp[1].path, to_filename)
    IN
    IF ~exists_no_traverse(h, trp[1].path) THEN Ret(fs, h, "NFS3ERR_NOENT", 0, None)
    ELSE IF ~exists_no_traverse(h, from_path) THEN Ret(fs, h, "NFS3ERR_NOENT", 0, None)
    ELSE
    LET sys == HostRename(h, from_path, to_path, t) IN
    IF ~sys.ok THEN Ret(fs, h, "NFS3ERR_IO", 0, None)
    ELSE
    LET h1           == sys.h
        fs1          == [fs EXCEPT !.intern = fs.intern \cup {from_filename, to_filename}]
        from_sympath == Append(from_dirent.ent.name, from_filename)
        to_sympath   == Append(to_dirent.ent.name, to_filename)
    IN
    IF from_sympath \in DOMAIN fs1.path_to_id
          /\ fs1.path_to_id[from_sympath] \notin DOMAIN fs1.id_to_path
    THEN \* id_to_path.get_mut(&fileid).unwrap() on None
         Ret(fs1, h1, "PANIC", fs1.path_to_id[from_sympath], None)
    ELSE
    LET bound  == from_sympath \in DOMAIN fs1.path_to_id
        fileid == IF bound THEN fs1.path_to_id[from_sympath] ELSE 0
        fs2    == IF bound
                  THEN [fs1 EXCEPT !.id_to_path[fileid].name = to_sympath,
                                   !.path_to_id = Put(Del(fs1.path_to_id, {from_sympath}),
                                                      to_sympath, fileid)]
                  ELSE fs1
        fs3    == IF bound /\ to_dirid # from_dirid
                  THEN rename_children(fs2, fileid, from_dirid, to_dirid)
                  ELSE fs2
        r1     == refresh_entry(fs3, h1, from_dirid)
        r2     == IF to_dirid # from_dirid THEN refresh_entry(r1.fs, h1, to_dirid) ELSE r1
    IN  Ret(r2.fs, h1, "NFS3_OK", fileid, None)

\* The nfsstat3 link maps an io::ErrorKind of hard_link to.
link_error(kind) ==
    CASE kind = "PermissionDenied" -> "NFS3ERR_ACCES"
      [] kind = "NotFound"         -> "NFS3ERR_NOENT"
      [] kind = "AlreadyExists"    -> "NFS3ERR_EXIST"
      [] OTHER                     -> "NFS3ERR_IO"

link(fs, h, t, ro, fileid, linkdirid, linkname) ==
    IF ro THEN Ret(fs, h, "NFS3ERR_ROFS", fileid, None)
    ELSE
    LET file_entry == find_entry(fs, fileid) IN
    IF file_entry.err # "" THEN Ret(fs, h, file_entry.err, fileid, None)
    ELSE
    LET frp == sym_to_real_path(fs, file_entry.ent.name) IN
    IF frp = None THEN Ret(fs, h, "NFS3ERR_ACCES", fileid, None)
    ELSE
    LET linkdir_entry == find_entry(fs, linkdirid) IN
    IF linkdir_entry.err # "" THEN Ret(fs, h, linkdir_entry.err, fileid, None)
    ELSE
    LET lrp == sym_to_real_path(fs, linkdir_entry.ent.name) IN
    IF lrp = None THEN Ret(fs, h, "NFS3ERR_ACCES", fileid, None)
    ELSE IF lrp[1].read_only THEN Ret(fs, h, "NFS3ERR_ROFS", fileid, None)
    ELSE
    LET link_path == Append(lrp[1].path, linkname)
        sys       == HostLink(h, frp[1].path, link_path, t)
    IN
    IF sys.err # "" THEN Ret(fs, h, link_error(sys.err), fileid, None)
    ELSE
    LET link_sympath == Append(linkdir_entry.ent.name, linkname)
        fs1 == [fs EXCEPT !.intern = fs.intern \cup {linkname},
                          !.path_to_id = Put(fs.path_to_id, link_sympath, fileid)]
        ch  == fs1.id_to_path[linkdirid].children
        fs2 == IF ch # None
               THEN [fs1 EXCEPT !.id_to_path[linkdirid].children = Some(ch[1] \cup {fileid})]
               ELSE fs1
    IN  Ret(fs2, sys.h, "NFS3_OK", fileid, None)

---------------------------------------------------------------------------
(* The initial state: FSMap::new_with_mounts over mount sources that exist *)
(* (Config::validate has checked them); the sources are empty, or each     *)
(* holds a regular file already.  The working directory of the server is   *)
(* not a mount source; it may hold a file under the same relative path as  *)
(* a symbolic path of the map.                                             *)

InitHost ==
    [p \in {<<mounts[i].source>> : i \in DOMAIN mounts} |->
        LET i == CHOOSE j \in DOMAIN mounts : <<mounts[j].source>> = p
        IN  HostObj("NF3DIR", 0, 0 - i)]

\* The host trees the server may be started on.
InitHosts ==
    { InitHost,
      Put(Put(Put(InitHost, <<mounts[1].source, <<"x">> >>, HostObj("NF3REG", 0, 0 - 3)),
              <<mounts[2].source, <<"x">> >>, HostObj("NF3REG", 0, 0 - 4)),
          sym_to_path(<< >>, <<MountName(mounts[1]), <<"x">> >>), HostObj("NF3REG", 0, 0 - 5)) }

\* The loop of new_with_mounts over the mounts.
RECURSIVE add_mounts(_, _, _)
add_mounts(fs, h, i) ==
    IF i > Len(mounts) THEN fs
    ELSE LET target_sym  == MountName(mounts[i])
             meta        == h[<<mounts[i].source>>]
             mount_entry == FSEntry(<<target_sym>>, metadata_to_fattr3(1, meta),
                                    metadata_to_fattr3(1, meta), None)
             fileid      == fs.next_fileid
             root        == fs.id_to_path[0]
             fs1 == [fs EXCEPT
                       !.intern      = fs.intern \cup {target_sym},
                       !.next_fileid = fileid + 1,
                       !.id_to_path  = Put([fs.id_to_path EXCEPT ![0].children =
                                                Some(root.children[1] \cup {fileid})],
                                           fileid, mount_entry),
                       !.path_to_id  = Put(fs.path_to_id, <<target_sym>>, fileid)]
         IN  add_mounts(fs1, h, i + 1)

new_with_mounts(h) ==
    LET root_metadata == h[<<mounts[1].source>>]
        root_entry    == FSEntry(<< >>, metadata_to_fattr3(0, root_metadata),
                                 metadata_to_fattr3(0, root_metadata), Some({}))
        fsmap == [next_fileid |-> 1,
                  intern      |-> {},
                  id_to_path  |-> (0 :> root_entry),
                  path_to_id  |-> (<< >> :> 0)]
    IN  add_mounts(fsmap, h, 1)

\* The map state the variables hold.
FS == [next_fileid |-> next_fileid, intern |-> intern,
       id_to_path |-> id_to_path, path_to_id |-> path_to_id]

\* No configuration is being validated.
NoConfig == [config |-> Config_default, out |-> None]

\* No read of file contents is under way.
NoRead == [bytes |-> << >>, offset |-> 0, count |-> 0, overflow_checks |-> FALSE,
           out |-> None]

\* No write of file contents is under way.
NoWrite == [bytes |-> << >>, offset |-> 0, data |-> << >>, out |-> None]

\* The client tasks of the runtime.
NumTasks == 2

Tasks == 1 .. NumTasks

\* A task that runs no handler.
IdleTask == [op |-> "idle", pc |-> "idle", id |-> 0, path |-> << >>]

NoTasks == [t \in Tasks |-> IdleTask]

Init ==
    /\ host \in InitHosts
    /\ clock = 0
    /\ read_only \in BOOLEAN
    /\ rd = NoRead
    /\ wr = NoWrite
    /\ lock = {}
    /\ conf = NoConfig
    /\ task = NoTasks
    /\ LET fs == new_with_mounts(host)
       IN  /\ next_fileid = fs.next_fileid
           /\ intern = fs.intern
           /\ id_to_path = fs.id_to_path
           /\ path_to_id = fs.path_to_id

---------------------------------------------------------------------------
(* Actions: one per handler, and the out-of-band changes of the host.      *)

\* Fileids a client may hold: every id handed out so far.
Ids == 0 .. (next_fileid - 1)

MountNames == {MountName(mounts[i]) : i \in DOMAIN mounts}

\* A handler call that returned r.
Apply(r) ==
    /\ r.host # host => clock < MaxClock
    /\ r.fs.next_fileid <= MaxFileid
    /\ next_fileid' = r.fs.next_fileid
    /\ intern' = r.fs.intern
    /\ id_to_path' = r.fs.id_to_path
    /\ path_to_id' = r.fs.path_to_id
    /\ host' = r.host
    /\ clock' = IF r.host # host THEN clock + 1 ELSE clock
    /\ UNCHANGED <<read_only, conf, rd, wr, lock, task>>

Lookup ==
    \E dirid \in Ids, filename \in Names \cup MountNames, ord \in ListOrders :
        Apply(lookup(FS, host, dirid, filename, ord))

Getattr ==
    \E id \in Ids : Apply(getattr(FS, host, id))

Read ==
    \E id \in Ids : Apply(read(FS, host, id))

Readdir ==
    \E dirid \in Ids, start_after \in {0, 1}, max_entries \in {1, next_fileid},
       ord \in ListOrders :
        Apply(readdir(FS, host, dirid, start_after, max_entries, ord))

Setattr ==
    \E id \in Ids : Apply(setattr(FS, host, clock + 1, id))

Write ==
    \E id \in Ids : Apply(write(FS, host, clock + 1, read_only, id))

Create ==
    \E dirid \in Ids, filename \in Names :
        Apply(create(FS, host, clock + 1, read_only, dirid, filename))

CreateExclusive ==
    \E dirid \in Ids, filename \in Names :
        Apply(create_exclusive(FS, host, clock + 1, read_only, dirid, filename))

Mkdir ==
    \E dirid \in Ids, dirname \in Names :
        Apply(mkdir(FS, host, clock + 1, read_only, dirid, dirname))

Symlink ==
    \E dirid \in Ids, linkname \in Names :
        Apply(symlink(FS, host, clock + 1, read_only, dirid, linkname))

FTypes == {"NF3REG", "NF3DIR", "NF3BLK", "NF3CHR", "NF3LNK", "NF3SOCK", "NF3FIFO"}

\* One requested type for each arm of the match in mknod.
MknodTypes == {"NF3CHR", "NF3FIFO", "NF3REG"}

Mknod ==
    \E dirid \in Ids, filename \in Names, ftype \in MknodTypes :
        Apply(mknod(FS, host, clock + 1, read_only, dirid, filename, ftype))

Readlink ==
    \E id \in Ids : Apply(readlink(FS, host, id))

Remove ==
    \E dirid \in Ids, filename \in Names :
        Apply(remove(FS, host, clock + 1, read_only, dirid, filename))

Rename ==
    \E from_dirid \in Ids, from_filename \in Names, to_dirid \in Ids, to_filename \in Names :
        Apply(rename(FS, host, clock + 1, read_only,
                               from_dirid, from_filename, to_dirid, to_filename))

Link ==
    \E fileid \in Ids, linkdirid \in Ids, linkname \in Names :
        Apply(link(FS, host, clock + 1, read_only, fileid, linkdirid, linkname))

\* Host paths an out-of-band writer may create: the mount sources and the
\* names below the existing directories of the first (writable) mount.
OobPaths ==
    {<<mounts[i].source>> : i \in DOMAIN mounts}
      \cup {Append(p, n) : p \in {q \in DOMAIN host : /\ host[q].ftype = "NF3DIR"
                                                       /\ q[1] = mounts[1].source},
                           n \in Names}

Oob(h) ==
    /\ clock < MaxClock
    /\ host' = h
    /\ clock' = clock + 1
    /\ UNCHANGED <<next_fileid, intern, id_to_path, path_to_id, read_only, conf, rd, wr, lock, task>>

OobCreate ==
    \E p \in OobPaths, ft \in {"NF3REG", "NF3DIR"} :
        /\ Len(p) = 1 => ft = "NF3DIR"
        /\ HostCanCreate(host, p)
        /\ Oob(HostAdd(host, p, ft, clock + 1))

\* The host objects of the mounted trees.
Mounted == {p \in DOMAIN host : \E i \in DOMAIN mounts : p[1] = mounts[i].source}

OobRemove ==
    \E p \in Mounted : Oob(HostRemove(host, p, clock + 1))

OobTouch ==
    \E p \in Mounted : Oob(HostTouch(host, p, clock + 1))

\* The object at p, below a mount source, is replaced by one of another type
\* (mv over it).
OobReplace ==
    \E p \in Mounted, ft \in {"NF3REG", "NF3DIR"} :
        /\ Len(p) > 1
        /\ host[p].ftype # ft
        /\ Oob(HostAdd(HostRemove(host, p, clock + 1), p, ft, clock + 1))

Next ==
    \/ Lookup \/ Getattr \/ Read \/ Readdir \/ Setattr \/ Write
    \/ Create \/ CreateExclusive \/ Mkdir \/ Symlink \/ Mknod \/ Readlink
    \/ Remove \/ Rename \/ Link
    \/ OobCreate \/ OobRemove \/ OobTouch \/ OobReplace

Spec == Init /\ [][Next]_vars

---------------------------------------------------------------------------
(* read on the bytes of a regular file: the file, the offset and the count *)
(* are drawn from bounded sets, and the build has overflow checks or not.  *)

Bytes == {0, 1}

Contents == UNION {[1 .. n -> Bytes] : n \in 0 .. MaxLen}

InitRead ==
    /\ host = InitHost
    /\ clock = 0
    /\ read_only = FALSE
    /\ wr = NoWrite
    /\ lock = {}
    /\ conf = NoConfig
    /\ task = NoTasks
    /\ LET fs == new_with_mounts(host)
       IN  /\ next_fileid = fs.next_fileid
           /\ intern = fs.intern
           /\ id_to_path = fs.id_to_path
           /\ path_to_id = fs.path_to_id
    /\ \E b \in Contents, offset \in 0 .. (Pow2(OffsetBits) - 1),
          count \in 0 .. (Pow2(CountBits) - 1), oc \in BOOLEAN :
          rd = [bytes |-> b, offset |-> offset, count |-> count,
                overflow_checks |-> oc, out |-> None]

ReadRange ==
    /\ rd.out = None
    /\ rd' = [rd EXCEPT !.out = Some(read_range(rd.bytes, rd.offset, rd.count,
                                                rd.overflow_checks))]
    /\ UNCHANGED <<next_fileid, intern, id_to_path, path_to_id, read_only, conf, host, clock,
                   wr, lock, task>>

NextRead == ReadRange

SpecRead == InitRead /\ [][NextRead]_vars

---------------------------------------------------------------------------
(* write on the bytes of a regular file: the file, the offset and the data *)
(* are drawn from bounded sets.                                            *)

InitWrite ==
    /\ host = InitHost
    /\ clock = 0
    /\ read_only = FALSE
    /\ rd = NoRead
    /\ lock = {}
    /\ conf = NoConfig
    /\ task = NoTasks
    /\ LET fs == new_with_mounts(host)
       IN  /\ next_fileid = fs.next_fileid
           /\ intern = fs.intern
           /\ id_to_path = fs.id_to_path
           /\ path_to_id = fs.path_to_id
    /\ \E b \in Contents, offset \in 0 .. (Pow2(OffsetBits) - 1), data \in Contents :
          wr = [bytes |-> b, offset |-> offset, data |-> data, out |-> None]

WriteRange ==
    /\ wr.out = None
    /\ wr' = [wr EXCEPT !.out = Some(write_range(wr.bytes, wr.offset, wr.data))]
    /\ UNCHANGED <<next_fileid, intern, id_to_path, path_to_id, read_only, conf, host, clock,
                   rd, lock, task>>

NextWrite == WriteRange

SpecWrite == InitWrite /\ [][NextWrite]_vars

---------------------------------------------------------------------------
(* Config::validate on a configuration drawn from bounded sets.            *)

\* The number of mounts of a configuration.
MaxMounts == 2

SourceKinds == {"absent", "file", "dir"}

Targets == { << >>, <<"a">>, <<"/">>, <<"/", "a">>, <<"/", "b">> }

Ports == {0, 1, default_port}

MountConfigs == [source : SourceKinds, target : Targets]

Configs ==
    [port : Ports, mounts : UNION {[1 .. n -> MountConfigs] : n \in 0 .. MaxMounts}]

InitConfig ==
    /\ host = InitHost
    /\ clock = 0
    /\ read_only = FALSE
    /\ rd = NoRead
    /\ wr = NoWrite
    /\ lock = {}
    /\ task = NoTasks
    /\ LET fs == new_with_mounts(host)
       IN  /\ next_fileid = fs.next_fileid
           /\ intern = fs.intern
           /\ id_to_path = fs.id_to_path
           /\ path_to_id = fs.path_to_id
    /\ \E c \in Configs : conf = [config |-> c, out |-> None]

Validate ==
    /\ conf.out = None
    /\ conf' = [conf EXCEPT !.out = Some(validate(conf.config))]
    /\ UNCHANGED <<next_fileid, intern, id_to_path, path_to_id, read_only, host, clock,
                   rd, wr, lock, task>>

NextConfig == Validate

SpecConfig == InitConfig /\ [][NextConfig]_vars

---------------------------------------------------------------------------
(* Client tasks running handlers concurrently.  MirrorFS.fsmap is a        *)
(* tokio::sync::Mutex: a handler awaits lock(), works on the map while it  *)
(* holds the guard, and the guard is released when it is dropped or goes   *)
(* out of scope at the return.  A task is at one of the positions          *)
(*   idle -> lock -> map -> (drop -> io ->) ret -> idle.                   *)

\* The handlers the tasks run.
LockOps == {"getattr", "lookup", "read", "write"}

\* The handlers with a file-data phase (open, seek, read or write of the
\* content of the file).
has_file_phase(op) == op \in {"read", "write"}

\* Variant of drops_guard for handlers that keep the guard to their return.
drops_guard_never(op) == FALSE

\* The handlers that call drop(fsmap) before their file-data phase.
drops_guard(op) == op \in {"read", "write"}

InitLock ==
    /\ host \in InitHosts
    /\ DOMAIN host # DOMAIN InitHost
    /\ clock = 0
    /\ read_only = FALSE
    /\ rd = NoRead
    /\ wr = NoWrite
    /\ lock = {}
    /\ conf = NoConfig
    /\ task = NoTasks
    /\ LET fs == new_with_mounts(host)
       IN  /\ next_fileid = fs.next_fileid
           /\ intern = fs.intern
           /\ id_to_path = fs.id_to_path
           /\ path_to_id = fs.path_to_id

\* The RPC layer spawns a handler call on a task.
Call ==
    \E t \in Tasks, op \in LockOps, id \in Ids :
        /\ task[t].pc = "idle"
        /\ task' = [task EXCEPT ![t] = [op |-> op, pc |-> "lock", id |-> id, path |-> << >>]]
        /\ UNCHANGED <<next_fileid, intern, id_to_path, path_to_id, read_only, conf, host, clock,
                       rd, wr, lock>>

\* self.fsmap.lock().await returns the guard.
Acquire ==
    \E t \in Tasks :
        /\ task[t].pc = "lock"
        /\ lock = {}
        /\ lock' = lock \cup {t}
        /\ task' = [task EXCEPT ![t].pc = "map"]
        /\ UNCHANGED <<next_fileid, intern, id_to_path, path_to_id, read_only, conf, host, clock,
                       rd, wr>>

\* The part of the handler that works on the map.
Locked ==
    \E t \in Tasks :
        /\ task[t].pc = "map"
        /\ LET op == task[t].op
               id == task[t].id
           IN  IF has_file_phase(op)
               THEN LET l == IF op = "read" THEN read_locked(FS, id)
                                            ELSE write_locked(FS, read_only, id)
                    IN  /\ task' = [task EXCEPT
                                      ![t].path = l.path,
                                      ![t].pc = IF l.err # "" THEN "ret"
                                                ELSE IF drops_guard(op) THEN "drop"
                                                ELSE "io"]
                        /\ UNCHANGED <<next_fileid, intern, id_to_path, path_to_id>>
               ELSE \E filename \in Names, ord \in ListOrders :
                      LET r == IF op = "getattr" THEN getattr(FS, host, id)
                                                 ELSE lookup(FS, host, id, filename, ord)
                      IN  /\ task' = [task EXCEPT ![t].pc = "ret"]
                          /\ next_fileid' = r.fs.next_fileid
                          /\ intern' = r.fs.intern
                          /\ id_to_path' = r.fs.id_to_path
                          /\ path_to_id' = r.fs.path_to_id
        /\ UNCHANGED <<read_only, conf, host, clock, rd, wr, lock>>

\* drop(fsmap).
Drop ==
    \E t \in Tasks :
        /\ task[t].pc = "drop"
        /\ lock' = lock \ {t}
        /\ task' = [task EXCEPT ![t].pc = "io"]
        /\ UNCHANGED <<next_fileid, intern, id_to_path, path_to_id, read_only, conf, host, clock,
                       rd, wr>>

\* What the range arithmetic of read may end in, over the offsets and counts
\* of a call, the lengths of a file and the two kinds of build.
ReadOutcomes ==
    { read_range([k \in 1 .. len |-> 0], offset, count, oc).status :
        len \in 0 .. MaxLen, offset \in 0 .. (Pow2(OffsetBits) - 1),
        count \in 0 .. (Pow2(CountBits) - 1), oc \in BOOLEAN }

\* The file-data phase: open, seek, read or write, on the resolved path.
\* When the range arithmetic of read panics, the task ends without a return.
FileIO ==
    \E t \in Tasks :
        /\ task[t].pc = "io"
        /\ IF task[t].op = "write"
           THEN LET io == write_file(host, clock + 1, task[t].path)
                IN  /\ io.h # host => clock < MaxClock
                    /\ host' = io.h
                    /\ clock' = IF io.h # host THEN clock + 1 ELSE clock
                    /\ task' = [task EXCEPT ![t].pc = "ret"]
           ELSE /\ UNCHANGED <<host, clock>>
                /\ LET st == read_file(host, task[t].path)
                   IN  \E out \in (IF st = "NFS3_OK" THEN ReadOutcomes ELSE {st}) :
                          task' = [task EXCEPT
                                     ![t].pc = IF out = "PANIC" THEN "panicked" ELSE "ret"]
        /\ UNCHANGED <<next_fileid, intern, id_to_path, path_to_id, read_only, conf, rd, wr, lock>>

\* The handler returns: a guard still held goes out of scope.
Return ==
    \E t \in Tasks :
        /\ task[t].pc = "ret"
        /\ lock' = lock \ {t}
        /\ task' = [task EXCEPT ![t] = IdleTask]
        /\ UNCHANGED <<next_fileid, intern, id_to_path, path_to_id, read_only, conf, host, clock,
                       rd, wr>>

\* The tasks run while the host tree is open to other processes: besides the
\* steps of the handlers, a host object may be removed out-of-band.
NextLock == Call \/ Acquire \/ Locked \/ Drop \/ FileIO \/ Return \/ OobRemove

SpecLock == InitLock /\ [][NextLock]_vars

\* The steps of the handlers alone: the host syscalls terminate and no other
\* process changes the host.
NextLockFair == Call \/ Acquire \/ Locked \/ Drop \/ FileIO \/ Return

\* The step of task t that takes the lock.
AcquireBy(t) == Acquire /\ task[t].pc = "lock" /\ task'[t].pc = "map"

\* What the step Locked does to the task that takes it and to the state
\* outside the map.
LockedTask ==
    \E t \in Tasks :
        /\ task[t].pc = "map"
        /\ IF has_file_phase(task[t].op)
           THEN LET l == IF task[t].op = "read" THEN read_locked(FS, task[t].id)
                         ELSE write_locked(FS, read_only, task[t].id)
                IN  task' = [task EXCEPT
                                ![t].path = l.path,
                                ![t].pc = IF l.err # "" THEN "ret"
                                          ELSE IF drops_guard(task[t].op) THEN "drop"
                                          ELSE "io"]
           ELSE task' = [task EXCEPT ![t].pc = "ret"]
        /\ UNCHANGED <<read_only, conf, host, clock, rd, wr, lock>>

\* A step of the handler that task t runs, after it has the lock.
HandlerStep(t) == (LockedTask \/ Drop \/ FileIO \/ Return) /\ task'[t] # task[t]

\* The runtime polls every task that can make progress, and the mutex hands
\* the lock to the waiting tasks in the order of their requests: a task that
\* waits while the lock is released again and again gets it.
SpecLockFair ==
    /\ InitLock
    /\ [][NextLockFair]_vars
    /\ \A t \in Tasks : WF_task(HandlerStep(t)) /\ SF_task(AcquireBy(t))

---------------------------------------------------------------------------
(* Properties.                                                             *)

\* The fileids that have an entry.
Live == DOMAIN id_to_path

\* C1: id_to_path and path_to_id are mutual inverses in every reachable
\* state: every live fileid is bound under its own name, and every bound
\* path maps to a live fileid whose name is that path.
C1_MapInversion ==
    /\ \A i \in Live :
          /\ id_to_path[i].name \in DOMAIN path_to_id
          /\ path_to_id[id_to_path[i].name] = i
    /\ \A p \in DOMAIN path_to_id :
          /\ path_to_id[p] \in Live
          /\ id_to_path[path_to_id[p]].name = p

\* C2: fileid 0 is always present with an empty name, and its children are
\* exactly the live fileids of the configured mounts: no child is absent
\* from id_to_path and no mount is missing.
C2_RootStable ==
    /\ 0 \in Live
    /\ id_to_path[0].name = << >>
    /\ id_to_path[0].children # None
    /\ LET children == id_to_path[0].children[1]
       IN  /\ children \subseteq Live
           /\ \A i \in children : \E m \in DOMAIN mounts :
                   id_to_path[i].name = <<MountName(mounts[m])>>
           /\ \A m \in DOMAIN mounts : \E i \in children :
                   id_to_path[i].name = <<MountName(mounts[m])>>

\* C3: every step allocates fileids only at or above the counter, never 0,
\* and advances the counter past them; every fileid in use is below the
\* counter.  So a new fileid exceeds all earlier ones and a destroyed
\* fileid is never handed out again.
C3_IdMonotonic ==
    /\ [](\A i \in Live : i < next_fileid)
    /\ [][ /\ next_fileid' >= next_fileid
           /\ \A i \in (DOMAIN id_to_path') \ Live :
                 i >= next_fileid /\ i < next_fileid' /\ i # 0 ]_vars

\* C3 witness: some fileid has been destroyed, and a lookup now allocates
\* a fresh fileid for a path.
C3_Witness ==
    /\ \E i \in Ids : i \notin Live
    /\ \E dirid \in Live, filename \in Names, ord \in ListOrders :
          LET r == lookup(FS, host, dirid, filename, ord)
          IN  /\ r.status = "NFS3_OK"
              /\ r.id \notin Ids
              /\ r.id \in DOMAIN r.fs.id_to_path

\* The symbolic path of filename in the directory dirid.
SymPath(dirid, filename) == Append(id_to_path[dirid].name, filename)

\* C4: a successful rename whose source path is bound to fileid f (and
\* differs from the destination path) unbinds the old path, binds the new
\* path to f, names f by the new path, and afterwards lookup of the new name
\* returns f while lookup of the old name returns no-ent.
C4_RenamePreservesIdentity ==
    \A from_dirid \in Live, to_dirid \in Live, from_filename \in Names, to_filename \in Names :
        LET from_sympath == SymPath(from_dirid, from_filename)
            to_sympath   == SymPath(to_dirid, to_filename)
            r == rename(FS, host, clock + 1, read_only,
                        from_dirid, from_filename, to_dirid, to_filename)
        IN  ( /\ from_sympath \in DOMAIN path_to_id
              /\ from_sympath # to_sympath
              /\ r.status = "NFS3_OK" )
            => LET f == path_to_id[from_sympath]
               IN  /\ from_sympath \notin DOMAIN r.fs.path_to_id
                   /\ to_sympath \in DOMAIN r.fs.path_to_id
                   /\ r.fs.path_to_id[to_sympath] = f
                   /\ f \in DOMAIN r.fs.id_to_path
                   /\ r.fs.id_to_path[f].name = to_sympath
                   /\ \A ord \in ListOrders :
                        LET new == lookup(r.fs, r.host, to_dirid, to_filename, ord)
                            old == lookup(r.fs, r.host, from_dirid, from_filename, ord)
                        IN  /\ new.status = "NFS3_OK" /\ new.id = f
                            /\ old.status = "NFS3ERR_NOENT"

\* C5: after a successful link(fileid, linkdirid, linkname) the original
\* symbolic path of fileid and the new path in the link directory are both
\* bound to fileid, and the id counter has not advanced.
C5_LinkAliasing ==
    \A fileid \in Live, linkdirid \in Live, linkname \in Names :
        LET r == link(FS, host, clock + 1, read_only, fileid, linkdirid, linkname)
            orig == id_to_path[fileid].name
            new  == SymPath(linkdirid, linkname)
        IN  r.status = "NFS3_OK"
            => /\ orig \in DOMAIN r.fs.path_to_id
               /\ r.fs.path_to_id[orig] = fileid
               /\ new \in DOMAIN r.fs.path_to_id
               /\ r.fs.path_to_id[new] = fileid
               /\ r.fs.next_fileid = next_fileid

\* The mount holding the live fileid id is read-only.
MountReadOnly(id) ==
    LET rp == sym_to_real_path(FS, id_to_path[id].name)
    IN  rp # None /\ rp[1].read_only

\* A call that was refused as read-only and changed nothing.
Refused(r) ==
    /\ r.status \in {"NFS3ERR_ROFS", "NFS3ERR_ACCES"}
    /\ r.fs = FS
    /\ r.host = host

\* C6: with the global read-only flag set, or the mount holding the target
\* read-only, write, create, create_exclusive, remove, rename, mkdir,
\* symlink, mknod of any node type, and link return ro-fs or acces and leave
\* the host, the maps, the children sets and the id counter unchanged.
C6_ReadOnlyEnforced ==
    /\ \A id \in Live :
         (read_only \/ MountReadOnly(id))
         => /\ Refused(write(FS, host, clock + 1, read_only, id))
            /\ \A n \in Names :
                 /\ Refused(create(FS, host, clock + 1, read_only, id, n))
                 /\ Refused(create_exclusive(FS, host, clock + 1, read_only, id, n))
                 /\ Refused(mkdir(FS, host, clock + 1, read_only, id, n))
                 /\ Refused(symlink(FS, host, clock + 1, read_only, id, n))
                 /\ Refused(remove(FS, host, clock + 1, read_only, id, n))
                 /\ \A ftype \in FTypes :
                      Refused(mknod(FS, host, clock + 1, read_only, id, n, ftype))
    /\ \A from \in Live, to \in Live, n \in Names, m \in Names :
         (read_only \/ MountReadOnly(from) \/ MountReadOnly(to))
         => /\ Refused(rename(FS, host, clock + 1, read_only, from, n, to, m))
            /\ Refused(link(FS, host, clock + 1, read_only, from, to, m))

\* The host path the live fileid f names, if its mount resolves.
RealPath(f) == sym_to_real_path(FS, id_to_path[f].name)

\* C7: for every fileid with a host object, whatever happened to that object
\* out-of-band, getattr returns no-ent or the attributes the host object at
\* the fileid's path has now, never the ones cached before the change.
C7_RefreshConvergence ==
    \A f \in Ids \ {0} :
        LET r == getattr(FS, host, f)
        IN  \/ r.status = "NFS3ERR_NOENT"
            \/ /\ r.status = "NFS3_OK"
               /\ f \in Live
               /\ RealPath(f) # None
               /\ RealPath(f)[1].path \in DOMAIN host
               /\ r.val.ftype = host[RealPath(f)[1].path].ftype
               /\ r.val.stamp = host[RealPath(f)[1].path].stamp

\* C7 witness: the host object of a cached fileid below a mount has changed
\* since it was cached, and getattr now returns the new attributes.
C7_Witness ==
    \E f \in Live \ {0} :
        /\ Len(id_to_path[f].name) > 1
        /\ RealPath(f) # None
        /\ RealPath(f)[1].path \in DOMAIN host
        /\ id_to_path[f].fsmeta.stamp # host[RealPath(f)[1].path].stamp
        /\ getattr(FS, host, f).status = "NFS3_OK"
        /\ getattr(FS, host, f).val.stamp = host[RealPath(f)[1].path].stamp

\* C9: no handler call panics, whatever calls and host changes came before:
\* rename, remove, readdir and lookup return an NFSv3 status even for a path
\* bound to a fileid that has no entry.
C9_NoPanic ==
    /\ \A d \in Ids, e \in Ids, n \in Names, m \in Names :
         rename(FS, host, clock + 1, read_only, d, n, e, m).status # "PANIC"
    /\ \A d \in Ids, n \in Names :
         /\ remove(FS, host, clock + 1, read_only, d, n).status # "PANIC"
         /\ \A ord \in ListOrders :
              /\ lookup(FS, host, d, n, ord).status # "PANIC"
              /\ readdir(FS, host, d, 0, next_fileid, ord).status # "PANIC"

\* The fileid f is bound under its own name, and the host object at its path
\* is now a file where f was cached as a directory, or the reverse.
TypeFlipped(f) ==
    /\ id_to_path[f].name \in DOMAIN path_to_id
    /\ path_to_id[id_to_path[f].name] = f
    /\ Len(id_to_path[f].name) > 1
    /\ RealPath(f) # None
    /\ RealPath(f)[1].path \in DOMAIN host
    /\ {id_to_path[f].fsmeta.ftype, host[RealPath(f)[1].path].ftype} = {"NF3REG", "NF3DIR"}

\* A handler result that destroyed f and, if it names a fileid, names a
\* newly allocated one.
Destroyed(r, f) ==
    /\ f \notin DOMAIN r.fs.id_to_path
    /\ r.status = "NFS3_OK" => (r.id # f /\ r.id >= next_fileid)

\* C10: when the host object at a bound path has been replaced by one of the
\* other file type, the first getattr of the id, readdir of the parent or
\* lookup in the parent removes the old fileid, binds the path (if at all)
\* to a newly allocated fileid, and does not report the old fileid.
C10_TypeFlipDestroysId ==
    \A f \in Live : TypeFlipped(f) =>
        /\ LET r == getattr(FS, host, f)
           IN  r.status = "NFS3ERR_NOENT" /\ f \notin DOMAIN r.fs.id_to_path
        /\ \A d \in Live, ord \in ListOrders :
             id_to_path[d].name = Parent(id_to_path[f].name) =>
               /\ Destroyed(lookup(FS, host, d, sym_to_fname(FS, id_to_path[f].name), ord), f)
               /\ LET r == readdir(FS, host, d, 0, next_fileid, ord)
                  IN  /\ f \notin DOMAIN r.fs.id_to_path
                      /\ r.status = "NFS3_OK" =>
                           \A k \in DOMAIN r.val.entries : r.val.entries[k].fileid # f

Min(a, b) == IF a <= b THEN a ELSE b

\* C8: for a regular file with content b of length L and every offset and
\* count, read returns exactly b[min(offset,L) .. min(offset+count,L)], at
\* most count bytes, with eof true iff offset+count >= L; and its bytes
\* followed by those of a read starting at offset+count are b[offset..L].
C8_ReadRoundTrip ==
    rd.out # None =>
        LET b == rd.bytes
            L == Len(rd.bytes)
            r == rd.out[1]
        IN  /\ r.status = "NFS3_OK"
            /\ r.data = SubSeq(b, Min(rd.offset, L) + 1, Min(rd.offset + rd.count, L))
            /\ Len(r.data) <= rd.count
            /\ r.eof = (rd.offset + rd.count >= L)
            /\ rd.offset + rd.count + L < Pow2(OffsetBits) =>
                 LET rest == read_range(b, rd.offset + rd.count, L, rd.overflow_checks)
                 IN  /\ rest.status = "NFS3_OK"
                     /\ r.data \o rest.data = SubSeq(b, Min(rd.offset, L) + 1, L)

\* The live fileid f is bound under its own name and its host object has
\* been deleted (out-of-band, the cache has not seen it yet).
Stale(f) ==
    /\ id_to_path[f].name \in DOMAIN path_to_id
    /\ path_to_id[id_to_path[f].name] = f
    /\ RealPath(f) # None
    /\ RealPath(f)[1].path \notin DOMAIN host

\* C11: the first handler call after the host object of a cached fileid was
\* deleted out-of-band reports it: getattr returns no-ent, lookup of the
\* name in its parent returns no-ent and not the stale fileid, and read,
\* write, setattr and readlink on the fileid do not succeed.
C11_DeletedReportsNoEnt ==
    \A f \in Live : Stale(f) =>
        /\ getattr(FS, host, f).status = "NFS3ERR_NOENT"
        /\ read(FS, host, f).status # "NFS3_OK"
        /\ write(FS, host, clock + 1, read_only, f).status # "NFS3_OK"
        /\ setattr(FS, host, clock + 1, f).status # "NFS3_OK"
        /\ readlink(FS, host, f).status # "NFS3_OK"
        /\ \A d \in Live, ord \in ListOrders :
             id_to_path[d].name = Parent(id_to_path[f].name) =>
               lookup(FS, host, d, sym_to_fname(FS, id_to_path[f].name), ord).status
                    = "NFS3ERR_NOENT"

\* C12: when the host object of a cached fileid f was deleted out-of-band,
\* getattr(f) returns no-ent, and a readdir of f's parent directory (a
\* subdirectory, a mount node, or the root when f is a mount) after it
\* succeeds and lists no entry with fileid f.
C12_DeletedNotListed ==
    \A f \in Live : Stale(f) =>
        LET r == getattr(FS, host, f)
        IN  /\ r.status = "NFS3ERR_NOENT"
            /\ \A d \in Live, ord \in ListOrders :
                 id_to_path[d].name = Parent(id_to_path[f].name) =>
                   LET l == readdir(r.fs, r.host, d, 0, next_fileid, ord)
                   IN  /\ l.status = "NFS3_OK"
                       /\ \A k \in DOMAIN l.val.entries : l.val.entries[k].fileid # f

C14_LockDiscipline ==
    /\ [](Cardinality(lock) <= 1)
    /\ [](\A t \in Tasks : task[t].pc \in {"map", "drop"} => t \in lock)
    /\ [](\A t \in Tasks : task[t].pc = "io" => t \notin lock)
    /\ [][ <<next_fileid, intern, id_to_path, path_to_id>>'
              # <<next_fileid, intern, id_to_path, path_to_id>>
           => \E t \in lock : task[t].pc = "map" ]_vars

\* C14 witness: one task is in the file-data phase of write while another
\* holds the lock and works on the map.
C14_Witness ==
    \E t \in Tasks, u \in Tasks :
        /\ task[t].op = "write" /\ task[t].pc = "io"
        /\ u \in lock /\ task[u].pc = "map"

\* The result r of a creation of name n in directory d: if it succeeded, the
\* path of n in d is bound to the returned fileid, which is live with file
\* type ft; lookup(d, n) returns it and readdir(d) lists it exactly once,
\* under the name n.
Created(r, d, n, ft) ==
    r.status = "NFS3_OK" =>
        /\ SymPath(d, n) \in DOMAIN r.fs.path_to_id
        /\ r.fs.path_to_id[SymPath(d, n)] = r.id
        /\ r.id \in DOMAIN r.fs.id_to_path
        /\ r.fs.id_to_path[r.id].fsmeta.ftype = ft
        /\ \A ord \in ListOrders :
             /\ LET l == lookup(r.fs, r.host, d, n, ord)
                IN  l.status = "NFS3_OK" /\ l.id = r.id
             /\ LET l == readdir(r.fs, r.host, d, 0, r.fs.next_fileid, ord)
                IN  /\ l.status = "NFS3_OK"
                    /\ Cardinality({k \in DOMAIN l.val.entries :
                                       l.val.entries[k].fileid = r.id}) = 1
                    /\ \A k \in DOMAIN l.val.entries :
                         l.val.entries[k].fileid = r.id => l.val.entries[k].name = n

\* C15: after a successful create, create_exclusive, mkdir, symlink or mknod
\* (chr/blk/sock/fifo) of name n in directory d returning fileid f, the path
\* of n in d is bound to f, f is live with the type of the created object
\* (regular file, directory for mkdir, symlink for symlink), lookup(d, n)
\* returns f and readdir(d) lists f exactly once under the name n.
C15_CreateBinds ==
    \A d \in Live, n \in Names :
        /\ Created(create(FS, host, clock + 1, read_only, d, n), d, n, "NF3REG")
        /\ Created(create_exclusive(FS, host, clock + 1, read_only, d, n), d, n, "NF3REG")
        /\ Created(mkdir(FS, host, clock + 1, read_only, d, n), d, n, "NF3DIR")
        /\ Created(symlink(FS, host, clock + 1, read_only, d, n), d, n, "NF3LNK")
        /\ \A ft \in {"NF3CHR", "NF3BLK", "NF3SOCK", "NF3FIFO"} :
             Created(mknod(FS, host, clock + 1, read_only, d, n, ft), d, n, "NF3REG")

\* A call that failed with acces and changed nothing.
RefusedAcces(r) ==
    /\ r.status = "NFS3ERR_ACCES"
    /\ r.fs = FS
    /\ r.host = host

\* C16: where nothing is read-only, create, create_exclusive, mkdir, symlink
\* and mknod fail with acces and leave host and map unchanged when the
\* parent fileid is the synthetic root, a mount node, or an entry that is not
\* a directory.
C16_CreateNeedsRealDirectory ==
    \A d \in Live :
        ( /\ ~read_only
          /\ ~MountReadOnly(d)
          /\ \/ Len(id_to_path[d].name) <= 1
             \/ id_to_path[d].fsmeta.ftype # "NF3DIR" )
        => \A n \in Names :
             /\ RefusedAcces(create(FS, host, clock + 1, read_only, d, n))
             /\ RefusedAcces(create_exclusive(FS, host, clock + 1, read_only, d, n))
             /\ RefusedAcces(mkdir(FS, host, clock + 1, read_only, d, n))
             /\ RefusedAcces(symlink(FS, host, clock + 1, read_only, d, n))
             /\ \A ft \in {"NF3CHR", "NF3BLK", "NF3SOCK", "NF3FIFO"} :
                  RefusedAcces(mknod(FS, host, clock + 1, read_only, d, n, ft))

\* The live fileid f is cached as a directory, and is the root or has a
\* directory as its host object.
IsDirectory(f) ==
    /\ id_to_path[f].fsmeta.ftype = "NF3DIR"
    /\ \/ id_to_path[f].name = << >>
       \/ /\ RealPath(f) # None
          /\ RealPath(f)[1].path \in DOMAIN host
          /\ host[RealPath(f)[1].path].ftype = "NF3DIR"

\* C17: read on the root, a mount node or a subdirectory of a mount returns
\* is-dir, and so does write where nothing is read-only.
C17_DirectoryIsDir ==
    \A f \in Live : IsDirectory(f) =>
        /\ read(FS, host, f).status = "NFS3ERR_ISDIR"
        /\ (~read_only /\ ~MountReadOnly(f))
           => write(FS, host, clock + 1, read_only, f).status = "NFS3ERR_ISDIR"

\* The status the kind of a host error is to be reported as.
StatusOfKind(kind) ==
    CASE kind = "PermissionDenied" -> "NFS3ERR_ACCES"
      [] kind = "NotFound"         -> "NFS3ERR_NOENT"
      [] kind = "AlreadyExists"    -> "NFS3ERR_EXIST"
      [] OTHER                     -> "NFS3ERR_IO"

\* C18: a failing host call is reported by its kind: permission-denied as
\* acces, not-found as no-ent, already-exists as exist, every other error as
\* io.  Stated for the calls that create an object in a writable directory
\* d (create, create_exclusive, mkdir, symlink) and for the hard_link of
\* link.
C18_HostErrorsByKind ==
    \A d \in Live, n \in Names :
        (~read_only /\ RealPath(d) # None /\ ~RealPath(d)[1].read_only) =>
            LET path == Append(RealPath(d)[1].path, n)
                new  == HostCreateError(host, path)
                open == HostOpenCreateError(host, path)
            IN  /\ open # "" =>
                     create(FS, host, clock + 1, read_only, d, n).status = StatusOfKind(open)
                /\ new # "" =>
                     /\ create_exclusive(FS, host, clock + 1, read_only, d, n).status
                            = StatusOfKind(new)
                     /\ mkdir(FS, host, clock + 1, read_only, d, n).status = StatusOfKind(new)
                     /\ symlink(FS, host, clock + 1, read_only, d, n).status = StatusOfKind(new)
                /\ \A f \in Live :
                     RealPath(f) # None =>
                       LET sys == HostLink(host, RealPath(f)[1].path, path, clock + 1)
                       IN  sys.err # "" =>
                             link(FS, host, clock + 1, read_only, f, d, n).status
                                 = StatusOfKind(sys.err)

\* C19: for a fileid f whose host object exists, setattr(f) succeeds, changes
\* exactly the host object the mount table resolves f's symbolic path to
\* (the one getattr and read use), and leaves in entry[f].fsmeta, and
\* returns, a fresh stat of that object.
C19_SetattrOnResolvedPath ==
    \A f \in Live :
        (RealPath(f) # None /\ RealPath(f)[1].path \in DOMAIN host) =>
            LET p == RealPath(f)[1].path
                r == setattr(FS, host, clock + 1, f)
            IN  /\ r.status = "NFS3_OK"
                /\ r.host = HostTouch(host, p, clock + 1)
                /\ f \in DOMAIN r.fs.id_to_path
                /\ r.fs.id_to_path[f].fsmeta = metadata_to_fattr3(f, r.host[p])
                /\ r.val = metadata_to_fattr3(f, r.host[p])

\* The bytes of b outside [offset, offset + n) are those of a.
SameOutside(a, b, offset, n) ==
    \A k \in 1 .. Len(a) :
        (k <= offset \/ k > offset + n) => (k <= Len(b) /\ b[k] = a[k])

\* What holds of a successful write of data at offset to a file of content
\* b and length L, apart from the new length: no byte outside the written
\* range changes, the returned size is the new length, and a read of
\* |data| bytes at offset returns data.
WriteKeeps(w) ==
    /\ SameOutside(wr.bytes, w.bytes, wr.offset, Len(wr.data))
    /\ w.size = Len(w.bytes)
    /\ \A oc \in BOOLEAN :
         LET r == read_range(w.bytes, wr.offset, Len(wr.data), oc)
         IN  r.status = "NFS3_OK" /\ r.data = wr.data

Startup == clock = 0 /\ FS = new_with_mounts(host)

\* e is the directory entry readdir emits for mount i: fileid i, the target
\* without its leading slash, type directory.
IsMountEntry(e, i) ==
    /\ e.fileid = i
    /\ <<"/">> \o e.name = mounts[i].target
    /\ e.attr.ftype = "NF3DIR"

\* C21: at startup mount i has fileid i; readdir(0, 0, k) with k >= n
\* returns exactly the n mounts in configuration order with end = true, each
\* with its stripped target as name and type directory; readdir of a mount
\* whose source directory is empty returns no entry and end = true.
C21_StartupListing ==
    Startup =>
        \A k \in Len(mounts) .. MaxFileid, ord \in ListOrders :
            /\ \A i \in DOMAIN mounts :
                  /\ i \in Live
                  /\ <<"/">> \o id_to_path[i].name[1] = mounts[i].target
                  /\ Len(id_to_path[i].name) = 1
            /\ LET r == readdir(FS, host, 0, 0, k, ord)
               IN  /\ r.status = "NFS3_OK"
                   /\ Len(r.val.entries) = Len(mounts)
                   /\ r.val.end
                   /\ \A i \in DOMAIN mounts : IsMountEntry(r.val.entries[i], i)
            /\ \A i \in DOMAIN mounts :
                  ~HostHasChildren(host, <<mounts[i].source>>) =>
                      LET r == readdir(FS, host, i, 0, k, ord)
                      IN  /\ r.status = "NFS3_OK"
                          /\ r.val.entries = << >>
                          /\ r.val.end

\* C21 witness: readdir has listed an empty mount on the startup host.
C21_Witness ==
    /\ clock = 0
    /\ ~HostHasChildren(host, <<mounts[1].source>>)
    /\ id_to_path = [new_with_mounts(host).id_to_path EXCEPT ![1].children = Some({})]

\* C22: the fileid field of every live entry's fsmeta is the entry's own
\* fileid, so the attributes getattr(i) returns carry fileid i and the
\* attributes of every entry readdir emits carry that entry's fileid.
C22_FsmetaCarriesFileid ==
    /\ \A i \in Live : id_to_path[i].fsmeta.fileid = i
    /\ \A i \in Ids :
          LET r == getattr(FS, host, i)
          IN  r.status = "NFS3_OK" => r.val.fileid = i
    /\ \A d \in Ids, ord \in ListOrders :
          LET r == readdir(FS, host, d, 0, next_fileid, ord)
          IN  r.status = "NFS3_OK" =>
                  \A k \in DOMAIN r.val.entries :
                      r.val.entries[k].attr.fileid = r.val.entries[k].fileid

\* dirid is the node of mount i, and the mount's own target name is neither
\* cached below it nor present in its source directory.
OwnNameAbsent(dirid, i) ==
    /\ dirid \in Live
    /\ id_to_path[dirid].name = <<MountName(mounts[i])>>
    /\ <<MountName(mounts[i]), MountName(mounts[i])>> \notin DOMAIN path_to_id
    /\ <<mounts[i].source, MountName(mounts[i])>> \notin DOMAIN host

\* C23: lookup of a mount's own target name in the mount's own node, when
\* that name is neither cached nor present in the source directory, returns
\* the mount's fileid.
C23_MountSelfReference ==
    \A i \in DOMAIN mounts, dirid \in Ids, ord \in ListOrders :
        OwnNameAbsent(dirid, i) =>
            LET r == lookup(FS, host, dirid, MountName(mounts[i]), ord)
            IN  r.status = "NFS3_OK" /\ r.id = dirid

\* The entries es are the smallest children of the set ch after the cursor,
\* in strictly increasing fileid order, and end tells that none is left.
IsPage(es, end, ch, start_after) ==
    LET after == {c \in ch : start_after > 0 => c > start_after}
        ids   == {es[k].fileid : k \in DOMAIN es}
        last  == IF es = << >> THEN start_after ELSE es[Len(es)].fileid
    IN  /\ \A k \in 1 .. (Len(es) - 1) : es[k].fileid < es[k + 1].fileid
        /\ ids \subseteq after
        /\ \A c \in after, e \in ids : c < e => c \in ids
        /\ end <=> ~(\E c \in after : c > last)

\* C24: a successful readdir(dirid, start_after, max_entries) emits, in
\* strictly increasing fileid order, the smallest children of the directory
\* above the cursor, none skipped, and sets end iff no child above the last
\* emitted one (above the cursor when nothing is emitted) remains; on a
\* fileid whose object is not a directory it returns not-dir.
C24_ReaddirPaging ==
    \A dirid \in Ids, start_after \in Ids, max_entries \in 0 .. 2, ord \in ListOrders :
        LET r == readdir(FS, host, dirid, start_after, max_entries, ord)
        IN  /\ r.status = "NFS3_OK" =>
                  IsPage(r.val.entries, r.val.end,
                         r.fs.id_to_path[dirid].children[1], start_after)
            /\ ( /\ dirid \in Live
                 /\ id_to_path[dirid].fsmeta.ftype # "NF3DIR"
                 /\ refresh_entry(FS, host, dirid).res # "Delete" )
               => r.status = "NFS3ERR_NOTDIR"

\* C24 witness: a directory below the root has been listed with two
\* children, so that a page of one entry leaves one behind, and a regular
\* file is cached.
C24_Witness ==
    /\ \E d \in Live :
          /\ d # 0
          /\ id_to_path[d].children # None
          /\ Cardinality(id_to_path[d].children[1]) >= 2
          /\ \A ord \in ListOrders : readdir(FS, host, d, 0, 1, ord).status = "NFS3_OK"
    /\ \E f \in Live :
          /\ id_to_path[f].fsmeta.ftype = "NF3REG"
          /\ \A ord \in ListOrders :
                readdir(FS, host, f, 0, 1, ord).status = "NFS3ERR_NOTDIR"

\* What the configuration must satisfy, condition by condition.
ValidConfig(c) ==
    /\ Len(c.mounts) >= 1
    /\ \A i \in DOMAIN c.mounts :
          /\ c.mounts[i].source = "dir"
          /\ c.mounts[i].target # << >>
          /\ c.mounts[i].target[1] = "/"
    /\ \A i, j \in DOMAIN c.mounts : i # j => c.mounts[i].target # c.mounts[j].target
    /\ c.port # 0

\* C25: validate returns Ok exactly when there is at least one mount, every
\* source is an existing directory, every target is non-empty and begins
\* with a slash, the targets are pairwise distinct and the port is not 0;
\* the default configuration is rejected.
C25_ValidateExact ==
    /\ conf.out # None => (conf.out[1] = "" <=> ValidConfig(conf.config))
    /\ validate(Config_default) # ""

\* C25 witness: validate has accepted a configuration of two mounts.
C25_Witness ==
    /\ conf.out # None
    /\ Len(conf.config.mounts) = 2
    /\ conf.out[1] = ""

\* The map state m binds neither a fileid nor a path below the symbolic
\* path p.
NothingBelow(m, p) ==
    /\ \A j \in DOMAIN m.id_to_path : ~IsProperPrefix(p, m.id_to_path[j].name)
    /\ \A q \in DOMAIN m.path_to_id : ~IsProperPrefix(p, q)

\* C26: when refresh_entry destroys an entry (result Delete), or remove
\* destroys the entry bound to the name it removes, no entry whose symbolic
\* path lies below the destroyed entry's path is left in id->entry or in
\* path->id.
C26_DestructionCascades ==
    /\ \A i \in Live :
          LET r == refresh_entry(FS, host, i)
          IN  r.res = "Delete" => NothingBelow(r.fs, id_to_path[i].name)
    /\ \A dirid \in Live, filename \in Names :
          LET r == remove(FS, host, clock + 1, read_only, dirid, filename)
          IN  ( /\ r.status = "NFS3_OK"
                /\ SymPath(dirid, filename) \in DOMAIN path_to_id )
              => NothingBelow(r.fs, SymPath(dirid, filename))

\* refresh_dir_list(id) in the map state fs goes past its two early returns
\* and lists the directory again.
Relists(fs, id) ==
    /\ id \in DOMAIN fs.id_to_path
    /\ fs.id_to_path[id].fsmeta.ftype = "NF3DIR"
    /\ \/ fs.id_to_path[id].children = None
       \/ fattr3_differ(fs.id_to_path[id].children_meta, fs.id_to_path[id].fsmeta)

\* C27: after refresh_dir_list(id) has listed a directory again, the
\* entry's children_meta equals its fsmeta, so that a second
\* refresh_dir_list(id) with the metadata unchanged does not list again.
C27_ListingRecordsMeta ==
    \A id \in Live, ord \in ListOrders :
        LET r == refresh_dir_list(FS, host, id, ord)
        IN  (Relists(FS, id) /\ r.err = "") =>
                /\ r.fs.id_to_path[id].children_meta = r.fs.id_to_path[id].fsmeta
                /\ ~Relists(r.fs, id)

\* C28: an entry's children set is non-null only when the directory has
\* been listed since the last metadata change refresh_entry detected: a
\* refresh_entry that returns Reload for a directory leaves its children
\* null, and so does getattr, which does that refresh and lists nothing.
C28_ReloadForgetsChildren ==
    \A i \in Live :
        id_to_path[i].fsmeta.ftype = "NF3DIR" =>
            /\ LET r == refresh_entry(FS, host, i)
               IN  r.res = "Reload" => r.fs.id_to_path[i].children = None
            /\ LET g == getattr(FS, host, i)
               IN  (g.status = "NFS3_OK" /\ g.val # id_to_path[i].fsmeta)
                       => g.fs.id_to_path[i].children = None

\* The result refresh_entry(i) must have for a live entry i other than the
\* root whose symbolic path resolves to the host path p.
RefreshExact(i, p) ==
    LET r       == refresh_entry(FS, host, i)
        absent  == p \notin DOMAIN host
        flipped == ~absent /\ host[p].ftype # id_to_path[i].fsmeta.ftype
        fresh   == metadata_to_fattr3(i, host[p])
        same    == ~absent /\ ~fattr3_differ(fresh, id_to_path[i].fsmeta)
    IN  /\ r.err = ""
        /\ r.res \in {"Delete", "Noop", "Reload"}
        /\ r.res = "Delete" <=> (absent \/ flipped)
        /\ r.res = "Delete" =>
              /\ i \notin DOMAIN r.fs.id_to_path
              /\ id_to_path[i].name \notin DOMAIN r.fs.path_to_id
        /\ r.res = "Noop" <=> same
        /\ r.res = "Noop" => r.fs = FS
        /\ r.res = "Reload" => r.fs = [FS EXCEPT !.id_to_path[i].fsmeta = fresh]

\* C29: refresh_entry(i) on a live entry other than the root returns Delete,
\* with i gone from id->entry and its path gone from path->id, iff the host path is absent or its type is
\* not the cached one; Noop, with the map unchanged, iff the fresh attributes
\* do not differ from fsmeta; and Reload otherwise, changing nothing but
\* entry[i].fsmeta.  refresh_entry(0) returns Noop and changes nothing.
C29_RefreshEntryFrame ==
    /\ \A i \in Live \ {0} :
          RealPath(i) # None => RefreshExact(i, RealPath(i)[1].path)
    /\ 0 \in Live =>
          LET r == refresh_entry(FS, host, 0)
          IN  r.err = "" /\ r.res = "Noop" /\ r.fs = FS

\* C29 witness: a listed directory whose host metadata has changed, for
\* which refresh_entry returns Reload, next to an entry whose host object has
\* been replaced by one of another type, for which it returns Delete.
C29_Witness ==
    /\ \E i \in Live \ {0} :
          /\ RealPath(i) # None
          /\ id_to_path[i].children # None
          /\ id_to_path[i].children[1] # {}
          /\ refresh_entry(FS, host, i).res = "Reload"
    /\ \E i \in Live \ {0} :
          /\ RealPath(i) # None
          /\ RealPath(i)[1].path \in DOMAIN host
          /\ refresh_entry(FS, host, i).res = "Delete"

\* The symbolic paths create_entry is called with: the bound ones and the
\* names below the live entries.
EntryPaths ==
    DOMAIN path_to_id \cup {SymPath(d, n) : d \in Live, n \in Names}

\* The host metadata create_entry is called with.
HostMetas == {host[p] : p \in DOMAIN host}

\* create_entry(path, meta) on a bound path: the bound fileid, no new
\* fileid, and no change but that entry's fsmeta.
RebindKeeps(path, meta) ==
    LET r    == create_entry(FS, path, meta)
        chid == path_to_id[path]
    IN  /\ r.id = chid
        /\ r.fs.next_fileid = next_fileid
        /\ r.fs = IF chid \in Live
                  THEN [FS EXCEPT !.id_to_path[chid].fsmeta = metadata_to_fattr3(chid, meta)]
                  ELSE FS

\* create_entry(path, meta) on an unbound path: a fileid not in use, bound
\* in both maps to an entry with null children and fsmeta = children_meta,
\* nothing else changed, and the same fileid from a second call.
BindsFresh(path, meta) ==
    LET r == create_entry(FS, path, meta)
        e == FSEntry(path, metadata_to_fattr3(r.id, meta),
                     metadata_to_fattr3(r.id, meta), None)
    IN  /\ r.id \notin Live
        /\ \A q \in DOMAIN path_to_id : path_to_id[q] # r.id
        /\ r.fs = [FS EXCEPT !.next_fileid = next_fileid + 1,
                             !.id_to_path = Put(id_to_path, r.id, e),
                             !.path_to_id = Put(path_to_id, path, r.id)]
        /\ r.fs.id_to_path[r.id].children = None
        /\ r.fs.id_to_path[r.id].fsmeta = r.fs.id_to_path[r.id].children_meta
        /\ \A meta2 \in HostMetas :
              LET r2 == create_entry(r.fs, path, meta2)
              IN  r2.id = r.id /\ r2.fs.next_fileid = r.fs.next_fileid

\* C30: create_entry on a bound path returns the bound fileid, changes only
\* that entry's fsmeta and does not advance the counter; on an unbound path
\* it allocates a fresh fileid, inserts it in both maps with null children
\* and fsmeta = children_meta, and a second call returns the same fileid.
C30_CreateEntryIdempotent ==
    \A path \in EntryPaths, meta \in HostMetas :
        IF path \in DOMAIN path_to_id
        THEN RebindKeeps(path, meta)
        ELSE BindsFresh(path, meta)

\* C30 witness: a path below a mount is bound to an entry create_entry made,
\* the host metadata of its object has changed since, and another name
\* below the same mount is still unbound.
C30_Witness ==
    \E i \in Live, n \in Names :
        /\ Len(id_to_path[i].name) = 2
        /\ path_to_id[id_to_path[i].name] = i
        /\ RealPath(i)[1].path \in DOMAIN host
        /\ create_entry(FS, id_to_path[i].name, host[RealPath(i)[1].path]).fs # FS
        /\ Append(Parent(id_to_path[i].name), n) \notin DOMAIN path_to_id

\* The symbolic path p is bound to f, and so is another path whose host
\* object exists in the host h.
HasOtherName(f, p, h) ==
    /\ p \in DOMAIN path_to_id
    /\ path_to_id[p] = f
    /\ \E q \in DOMAIN path_to_id :
          /\ q # p
          /\ path_to_id[q] = f
          /\ sym_to_real_path(FS, q) # None
          /\ sym_to_real_path(FS, q)[1].path \in DOMAIN h

\* C31: when a fileid f has two names (link made the second) and remove
\* unlinks one of them, f keeps its entry and getattr(f) succeeds as long as
\* the other name still exists on the host.
C31_SurvivingAliasKeepsId ==
    \A f \in Live, d \in Live, n \in Names :
        LET r == remove(FS, host, clock + 1, read_only, d, n)
        IN  (r.status = "NFS3_OK" /\ HasOtherName(f, SymPath(d, n), r.host)) =>
                /\ f \in DOMAIN r.fs.id_to_path
                /\ getattr(r.fs, r.host, f).status = "NFS3_OK"

\* C32: every fileid a successful lookup(d, n) returns has an entry in the
\* map lookup leaves, on the cache-hit path and on the path that lists the
\* directory again, also for a name that is the surviving alias of a hard
\* link whose other name was removed.
C32_LookupReturnsLiveId ==
    \A dirid \in Ids, filename \in Names \cup MountNames, ord \in ListOrders :
        LET r == lookup(FS, host, dirid, filename, ord)
        IN  r.status = "NFS3_OK" => r.id \in DOMAIN r.fs.id_to_path

\* C33: every fileid in the children set of a live entry has an entry
\* itself, so that readdir of the root, which is always live, never fails
\* with no-ent on a child without entry.
C33_ChildrenAreLive ==
    /\ \A i \in Live :
          id_to_path[i].children # None => id_to_path[i].children[1] \subseteq Live
    /\ \A ord \in ListOrders :
          readdir(FS, host, 0, 0, next_fileid, ord).status # "NFS3ERR_NOENT"

\* The listing es shows the fileid f under the name n.
Lists(es, f, n) == \E k \in DOMAIN es : es[k].fileid = f /\ es[k].name = n

\* C34: lookup(d, n) returns f for every entry (f, n) a successful
\* readdir(d) emits, with no host change in between; and a name n of d that
\* is one of two names bound to a live fileid f, both present on the host,
\* is listed by readdir(d) as (f, n).
C34_ReaddirAgreesWithLookup ==
    \A d \in Ids, ord \in ListOrders :
        LET r == readdir(FS, host, d, 0, next_fileid, ord)
        IN  r.status = "NFS3_OK" =>
                /\ \A k \in DOMAIN r.val.entries :
                      LET l == lookup(r.fs, r.host, d, r.val.entries[k].name, ord)
                      IN  l.status = "NFS3_OK" /\ l.id = r.val.entries[k].fileid
                /\ \A n \in Names, f \in Live :
                      ( /\ d \in Live
                        /\ HasOtherName(f, SymPath(d, n), host)
                        /\ sym_to_real_path(FS, SymPath(d, n)) # None
                        /\ sym_to_real_path(FS, SymPath(d, n))[1].path \in DOMAIN host )
                      => Lists(r.val.entries, f, n)

\* C35: after a successful rename of a cached directory to another path,
\* every fileid cached below it stays valid: getattr on it succeeds, and no
\* live entry and no bound path keeps the directory's old symbolic path as
\* a proper prefix.
C35_RenameCarriesDescendants ==
    \A from_dirid \in Live, to_dirid \in Live, from_filename \in Names, to_filename \in Names :
        LET old == SymPath(from_dirid, from_filename)
            r   == rename(FS, host, clock + 1, read_only,
                          from_dirid, from_filename, to_dirid, to_filename)
        IN  ( /\ r.status = "NFS3_OK"
              /\ old # SymPath(to_dirid, to_filename)
              /\ old \in DOMAIN path_to_id
              /\ path_to_id[old] \in Live
              /\ id_to_path[path_to_id[old]].fsmeta.ftype = "NF3DIR" )
            => /\ \A j \in Live :
                     IsProperPrefix(old, id_to_path[j].name) =>
                         getattr(r.fs, r.host, j).status = "NFS3_OK"
               /\ NothingBelow(r.fs, old)

\* C36: the file-data phase of a write never brings a host file into
\* existence: when the path it resolved under the lock has been removed from
\* the host in the meantime, the host has no new object after the write.
C36_WriteCreatesNoFile ==
    [][ \A t \in Tasks :
          (task[t].op = "write" /\ task[t].pc = "io" /\ task'[t].pc = "ret")
             => DOMAIN host' \subseteq DOMAIN host ]_vars

\* C37: when the global read-only flag is set, or the mount holding f is
\* read-only, setattr(f) fails and leaves the host unchanged.
C37_SetattrRespectsReadOnly ==
    \A id \in Live :
        (read_only \/ MountReadOnly(id)) =>
            LET r == setattr(FS, host, clock + 1, id)
            IN  r.status # "NFS3_OK" /\ r.host = host

\* C38: a successful readdir(dirid, start_after, max_entries) emits at most
\* max_entries entries, for every max_entries >= 0.
C38_ReaddirAtMostMax ==
    \A dirid \in Ids, start_after \in {0, 1}, max_entries \in 0 .. 2, ord \in ListOrders :
        LET r == readdir(FS, host, dirid, start_after, max_entries, ord)
        IN  r.status = "NFS3_OK" => Len(r.val.entries) <= max_entries

\* The children sets of the map fs.
ChildrenOf(fs, i) ==
    IF i \in DOMAIN fs.id_to_path /\ fs.id_to_path[i].children # None
    THEN fs.id_to_path[i].children[1] ELSE {}

\* No fileid of fs is reachable from itself by following children sets.
Acyclic(fs) ==
    \A i \in DOMAIN fs.id_to_path :
        i \notin collect_from(fs, ChildrenOf(fs, i), {})

\* C39: the children relation is acyclic in every state the handlers reach,
\* also after link or a rename across directories has inserted an existing
\* fileid into the children of another directory.
C39_ChildrenAcyclic ==
    /\ Acyclic(FS)
    /\ \A d \in Live, e \in Live, n \in Names, m \in Names :
         /\ Acyclic(rename(FS, host, clock + 1, read_only, d, n, e, m).fs)
         /\ Acyclic(link(FS, host, clock + 1, read_only, d, e, m).fs)

\* C40: every handler invocation eventually returns (as long as the bounded
\* clock lets the host change), a task waiting for the lock eventually
\* acquires it, and the lock is never held while no handler that took it is
\* running.
C40_HandlersReturn ==
    /\ \A t \in Tasks : (task[t].pc # "idle") ~> (task[t].pc = "idle" \/ clock = MaxClock)
    /\ \A t \in Tasks : (task[t].pc = "lock") ~> (t \in lock)
    /\ [](\A t \in lock : task[t].pc \in {"map", "drop", "ret"})

=============================================================================
